---------------------------- MODULE Spec2Model ----------------------------
(***************************************************************************)
(* memory-search: the index manager (MemoryIndex) over its SQLite store.   *)
(*                                                                         *)
(* The store is four tables (files, chunks, chunks_fts, embedding_cache)   *)
(* and the meta row; the workspace is a small set of memory files.  sync   *)
(* and search are modelled step by step, one action per stretch of code    *)
(* between two awaits.  The embedding provider, the file system and the    *)
(* full-text engine are the environment: their answers are chosen with \E. *)
(*                                                                         *)
(* Text is a sequence of characters: SP is a blank, NL a line break, the   *)
(* other characters are letters.                                           *)
(***************************************************************************)
EXTENDS Integers, Sequences, FiniteSets, Bags, TLC

(***************************************************************************)
(* Bounds of the model                                                     *)
(***************************************************************************)
MaxSyncs == 4
MaxEdits == 1
MaxReopens == 2
MaxFaults == 1

(***************************************************************************)
(* Characters and text                                                     *)
(***************************************************************************)
SP == " "
LA == "a"
LB == "b"
NL == "\n"

IsBlank(c) == c = SP \/ c = NL

Min(a, b) == IF a < b THEN a ELSE b
Max(a, b) == IF a > b THEN a ELSE b

\* String.prototype.trim: blanks are cut from both ends, the inside is kept.
RECURSIVE TrimLeft(_)
TrimLeft(s) ==
    IF s = <<>> THEN <<>>
    ELSE IF IsBlank(Head(s)) THEN TrimLeft(Tail(s)) ELSE s

RECURSIVE TrimRight(_)
TrimRight(s) ==
    IF s = <<>> THEN <<>>
    ELSE IF IsBlank(s[Len(s)]) THEN TrimRight(SubSeq(s, 1, Len(s) - 1)) ELSE s

TrimNoop(s) == s

Trim(s) == TrimRight(TrimLeft(s))

\* content.split("\n") and lines.join("\n")
RECURSIVE JoinLines(_)
JoinLines(ls) ==
    IF ls = <<>> THEN <<>>
    ELSE IF Len(ls) = 1 THEN ls[1]
    ELSE ls[1] \o <<NL>> \o JoinLines(Tail(ls))

(***************************************************************************)
(* The workspace: the eligible memory files and what they may hold         *)
(***************************************************************************)
Paths == {"MEMORY.md", "memory/a.md"}

\* listMemoryFiles returns the files in a fixed order.
PathOrder == <<"MEMORY.md", "memory/a.md">>

A4 == <<LA, LA, LA, LA>>

\* A file's content as its lines.
ContentTable ==
    << << <<LA>> >>,
       << <<LA, LB>>, <<LB>>, <<SP>>, <<LA>> >>,
       << <<>>, A4 \o A4 \o <<LA>> >> >>

Contents == {ContentTable[k] : k \in 1..Len(ContentTable)}

\* The workspace when the index is created.
InitialDisk == [p \in Paths |-> IF p = "MEMORY.md" THEN ContentTable[2] ELSE ContentTable[1]]

\* What the disk holds at a path with no file (a file's split("\n") is never empty).
NoFile == <<>>

(***************************************************************************)
(* hashText: SHA-256, modelled as an injective tag                         *)
(***************************************************************************)
hashText(x) == <<"sha256", x>>

(***************************************************************************)
(* chunkMarkdown                                                           *)
(***************************************************************************)
CHUNK_CHARS_PER_TOKEN == 4

\* A line longer than the budget is cut into budget-sized slices.
Segments(line, maxChars) ==
    IF line = <<>> THEN << <<>> >>
    ELSE [k \in 1..((Len(line) + maxChars - 1) \div maxChars) |->
            SubSeq(line, (k - 1) * maxChars + 1, Min(k * maxChars, Len(line)))]

RECURSIVE LineItems(_, _, _)
LineItems(lines, i, maxChars) ==
    IF i > Len(lines) THEN <<>>
    ELSE [k \in 1..Len(Segments(lines[i], maxChars)) |->
            [line |-> Segments(lines[i], maxChars)[k], lineNo |-> i]]
         \o LineItems(lines, i + 1, maxChars)

RECURSIVE SizeOf(_)
SizeOf(cur) ==
    IF cur = <<>> THEN 0 ELSE Len(Head(cur).line) + 1 + SizeOf(Tail(cur))

\* A chunk whose line numbers count from 0.
MakeChunkZeroBased(cur) ==
    LET text == JoinLines([k \in 1..Len(cur) |-> cur[k].line])
    IN [startLine |-> cur[1].lineNo - 1, endLine |-> cur[Len(cur)].lineNo - 1,
        text |-> text, hash |-> hashText(text)]

MakeChunk(cur) ==
    LET text == JoinLines([k \in 1..Len(cur) |-> cur[k].line])
    IN [startLine |-> cur[1].lineNo, endLine |-> cur[Len(cur)].lineNo,
        text |-> text, hash |-> hashText(text)]

\* The lines carried into the next window: from the end of the closed window
\* backwards until overlapChars characters are covered.
RECURSIVE KeepTail(_, _, _, _)
KeepTail(cur, i, acc, overlapChars) ==
    IF i < 1 THEN cur
    ELSE IF acc + Len(cur[i].line) + 1 >= overlapChars THEN SubSeq(cur, i, Len(cur))
    ELSE KeepTail(cur, i - 1, acc + Len(cur[i].line) + 1, overlapChars)

CarryOverlap(cur, overlapChars) ==
    IF overlapChars <= 0 \/ cur = <<>> THEN <<>>
    ELSE KeepTail(cur, Len(cur), 0, overlapChars)

RECURSIVE ChunkFold(_, _, _, _, _, _)
ChunkFold(items, i, cur, out, maxChars, overlapChars) ==
    IF i > Len(items)
    THEN IF cur = <<>> THEN out ELSE Append(out, MakeChunk(cur))
    ELSE IF SizeOf(cur) + Len(items[i].line) + 1 > maxChars /\ cur # <<>>
         THEN ChunkFold(items, i + 1,
                        Append(CarryOverlap(cur, overlapChars), items[i]),
                        Append(out, MakeChunk(cur)), maxChars, overlapChars)
         ELSE ChunkFold(items, i + 1, Append(cur, items[i]), out,
                        maxChars, overlapChars)

chunkMarkdown(lines, tokens, overlap) ==
    ChunkFold(LineItems(lines, 1, tokens * CHUNK_CHARS_PER_TOKEN), 1, <<>>, <<>>,
              tokens * CHUNK_CHARS_PER_TOKEN, overlap * CHUNK_CHARS_PER_TOKEN)


(***************************************************************************)
(* JSON text of a stored vector: JSON.stringify and parseEmbedding         *)
(***************************************************************************)
JSONstringify(v) == [parses |-> TRUE, arr |-> v]

\* Text that is no JSON array parses to the empty vector.
parseEmbedding(s) == IF s.parses THEN s.arr ELSE <<>>

(***************************************************************************)
(* Embedding providers and the configuration of an index instance          *)
(***************************************************************************)
PL == [id |-> "local", model |-> "gemma"]
PO == [id |-> "openai", model |-> "te3"]

computeProviderKey(p) == hashText(<<p.id, p.model>>)

\* The weights of the merge, in tenths, as resolveConfig sets them.
VectorWeight == 7
TextWeight == 3

MkConfig(p, tokens, overlap) ==
    [provider |-> p, providerKey |-> computeProviderKey(p),
     chunkTokens |-> tokens, chunkOverlap |-> overlap,
     vectorWeight |-> VectorWeight, textWeight |-> TextWeight]

BaseConfig == MkConfig(PL, 2, 0)

\* The base configuration, one with another provider (id, model and so
\* provider key), one with other chunkTokens, one with other chunkOverlap.
Configs ==
    {BaseConfig, MkConfig(PO, 2, 0), MkConfig(PL, 1, 0), MkConfig(PL, 2, 1)}

\* What a provider answers for a text: a vector that depends on the letters
\* of the text and on the model.
HasLetter(text, c) == \E k \in 1..Len(text) : text[k] = c

Emb(p, text) ==
    LET v == IF HasLetter(text, LA) /\ HasLetter(text, LB) THEN <<3, 4>>
             ELSE IF HasLetter(text, LA) THEN <<1, 0>>
             ELSE IF HasLetter(text, LB) THEN <<0, 1>>
             ELSE <<0, 0>>
    IN IF p.model = "gemma" THEN v ELSE <<v[2], v[1]>>

\* embedBatch: a vector per text, or (the remote provider, on a payload
\* without data) no vector at all.
BatchModes == {"ok", "empty"}

embedBatch(p, texts, mode) ==
    IF mode = "empty" /\ p.id = "openai" THEN <<>>
    ELSE [k \in 1..Len(texts) |-> Emb(p, texts[k])]

(***************************************************************************)
(* The store                                                               *)
(***************************************************************************)
EmptyCache == [k \in {} |-> JSONstringify(<<>>)]

EmptyDb ==
    [files |-> {}, chunks |-> {}, fts |-> EmptyBag, meta |-> <<>>,
     cache |-> EmptyCache]

BagWithout(b, dropped) == [r \in DOMAIN b \ dropped |-> b[r]]

\* readMeta: no row, an empty value or unparseable text is no metadata.
readMeta(d) ==
    IF d.meta = <<>> THEN {}
    ELSE IF ~d.meta[1].parses THEN {}
    ELSE {d.meta[1].obj}

writeMeta(d, m) == [d EXCEPT !.meta = <<[parses |-> TRUE, obj |-> m]>>]

MetaOf(c) ==
    [model |-> c.provider.model, provider |-> c.provider.id,
     providerKey |-> c.providerKey, chunkTokens |-> c.chunkTokens,
     chunkOverlap |-> c.chunkOverlap]

\* A decision that looks at the stored model only.
needsFullReindexByModel(force, metas, c) ==
    \/ force
    \/ metas = {}
    \/ \E m \in metas : m.model # c.provider.model

needsFullReindex(force, metas, c) ==
    \/ force
    \/ metas = {}
    \/ \E m \in metas : \/ m.model # c.provider.model
                        \/ m.provider # c.provider.id
                        \/ m.providerKey # c.providerKey
                        \/ m.chunkTokens # c.chunkTokens
                        \/ m.chunkOverlap # c.chunkOverlap

\* resetIndex.  ftsOk = FALSE is the DELETE on the full-text table throwing:
\* the catch swallows it.
\* A reset that empties the embedding cache as well.
resetIndexAndCache(d, ftsAvail, ftsOk) ==
    [d EXCEPT !.files = {}, !.chunks = {},
              !.fts = IF ftsAvail /\ ftsOk THEN EmptyBag ELSE @,
              !.cache = EmptyCache]

resetIndex(d, ftsAvail, ftsOk) ==
    [d EXCEPT !.files = {}, !.chunks = {},
              !.fts = IF ftsAvail /\ ftsOk THEN EmptyBag ELSE @]

\* An indexFile that leaves the file's full-text rows where they are.
DeleteFtsNever(d, path, model, ftsAvail, ftsOk) == d

\* DELETE FROM chunks_fts WHERE path = ? AND source = ? AND model = ?
DeleteFts(d, path, model, ftsAvail, ftsOk) ==
    IF ftsAvail /\ ftsOk
    THEN [d EXCEPT !.fts = BagWithout(@, {r \in DOMAIN @ : r.path = path /\ r.model = model})]
    ELSE d

\* DELETE FROM chunks WHERE path = ? AND source = ?
DeleteChunks(d, path) ==
    [d EXCEPT !.chunks = {c \in @ : c.path # path}]

chunkId(path, chunk, model) ==
    hashText(<<"memory", path, chunk.startLine, chunk.endLine, chunk.hash, model>>)

\* INSERT INTO chunks ... ON CONFLICT(id) DO UPDATE SET hash, model, text, embedding
UpsertChunk(d, row) ==
    IF \E c \in d.chunks : c.id = row.id
    THEN [d EXCEPT !.chunks =
            {IF c.id = row.id
             THEN [c EXCEPT !.hash = row.hash, !.model = row.model,
                            !.text = row.text, !.embedding = row.embedding]
             ELSE c : c \in @}]
    ELSE [d EXCEPT !.chunks = @ \cup {row}]

\* The insert into chunks_fts without its guard.
InsertFtsAlways(d, row, ftsAvail) ==
    [d EXCEPT !.fts = @ (+) SetToBag({[text |-> row.text, id |-> row.id,
                                       path |-> row.path, model |-> row.model,
                                       startLine |-> row.startLine,
                                       endLine |-> row.endLine]})]

\* if (this.fts.enabled && this.fts.available) INSERT INTO chunks_fts ...
InsertFts(d, row, ftsAvail) ==
    IF ftsAvail
    THEN [d EXCEPT !.fts = @ (+) SetToBag({[text |-> row.text, id |-> row.id,
                                            path |-> row.path, model |-> row.model,
                                            startLine |-> row.startLine,
                                            endLine |-> row.endLine]})]
    ELSE d

\* The insert loop of indexFile, for chunks i..upTo.
RECURSIVE InsertChunks(_, _, _, _, _, _, _, _)
InsertChunks(d, path, model, chunks, embeddings, i, upTo, ftsAvail) ==
    IF i > upTo THEN d
    ELSE LET row == [id |-> chunkId(path, chunks[i], model), path |-> path,
                     startLine |-> chunks[i].startLine,
                     endLine |-> chunks[i].endLine, hash |-> chunks[i].hash,
                     model |-> model, text |-> chunks[i].text,
                     embedding |-> JSONstringify(embeddings[i])]
         IN InsertChunks(InsertFts(UpsertChunk(d, row), row, ftsAvail),
                         path, model, chunks, embeddings, i + 1, upTo, ftsAvail)

\* INSERT INTO files ... ON CONFLICT(path) DO UPDATE SET hash
UpsertFile(d, path, hash) ==
    [d EXCEPT !.files = {f \in @ : f.path # path} \cup {[path |-> path, hash |-> hash]}]

\* The write half of indexFile: clear the path's rows, insert the new chunks,
\* upsert the file record.
WriteFile(d, c, j, ftsAvail, ftsOk) ==
    UpsertFile(
        InsertChunks(
            DeleteChunks(DeleteFts(d, j.path, c.provider.model, ftsAvail, ftsOk),
                         j.path),
            j.path, c.provider.model, j.chunks, j.embeddings,
            1, Len(j.chunks), ftsAvail),
        j.path, j.hash)

\* The same, cut short by a storage error after `done` chunk inserts.
WriteFilePartial(d, c, j, done, ftsAvail, ftsOk) ==
    InsertChunks(
        DeleteChunks(DeleteFts(d, j.path, c.provider.model, ftsAvail, ftsOk),
                     j.path),
        j.path, c.provider.model, j.chunks, j.embeddings, 1, done, ftsAvail)

\* The stale-file loop of syncMemoryFiles.
RECURSIVE RemoveStaleRows(_, _, _, _, _)
RemoveStaleRows(d, c, stale, ftsAvail, ftsOk) ==
    IF stale = {} THEN d
    ELSE LET p == CHOOSE x \in stale : TRUE
         IN RemoveStaleRows(
                DeleteFts(DeleteChunks([d EXCEPT !.files = {f \in @ : f.path # p}], p),
                          p, c.provider.model, ftsAvail, ftsOk),
                c, stale \ {p}, ftsAvail, ftsOk)

RemoveStale(d, c, activePaths, ftsAvail, ftsOk) ==
    RemoveStaleRows(d, c, {f.path : f \in d.files} \ activePaths, ftsAvail, ftsOk)

(***************************************************************************)
(* The embedding cache                                                     *)
(***************************************************************************)
CacheKey(c, hash) ==
    [provider |-> c.provider.id, model |-> c.provider.model,
     providerKey |-> c.providerKey, hash |-> hash]

\* A lookup that matches on the content hash alone.
LoadAnyProvider(d, c, hashes) ==
    [h \in {x \in hashes : \E k \in DOMAIN d.cache : k.hash = x} |->
        parseEmbedding(d.cache[CHOOSE k \in DOMAIN d.cache : k.hash = h])]

\* loadEmbeddingCache: hash -> vector, for the hashes stored under the
\* current provider id, model and provider key.
loadEmbeddingCache(d, c, hashes) ==
    [h \in {x \in hashes : CacheKey(c, x) \in DOMAIN d.cache} |->
        parseEmbedding(d.cache[CacheKey(c, h)])]

RECURSIVE upsertEmbeddingCache(_, _, _, _)
upsertEmbeddingCache(d, c, entries, i) ==
    IF i > Len(entries) THEN d
    ELSE upsertEmbeddingCache(
            [d EXCEPT !.cache = (CacheKey(c, entries[i].hash) :>
                                    JSONstringify(entries[i].embedding)) @@ @],
            c, entries, i + 1)

EMBEDDING_BATCH_MAX_TOKENS == 8000
EMBEDDING_APPROX_CHARS_PER_TOKEN == 1

estimateEmbeddingTokens(text) ==
    IF text = <<>> THEN 0
    ELSE (Len(text) + EMBEDDING_APPROX_CHARS_PER_TOKEN - 1)
            \div EMBEDDING_APPROX_CHARS_PER_TOKEN

RECURSIVE BatchFold(_, _, _, _, _)
BatchFold(chunks, i, current, currentTokens, batches) ==
    IF i > Len(chunks)
    THEN IF current # <<>> THEN Append(batches, current) ELSE batches
    ELSE LET estimate == estimateEmbeddingTokens(chunks[i].text)
             wouldExceed == current # <<>>
                            /\ currentTokens + estimate > EMBEDDING_BATCH_MAX_TOKENS
             cur1 == IF wouldExceed THEN <<>> ELSE current
             tok1 == IF wouldExceed THEN 0 ELSE currentTokens
             bat1 == IF wouldExceed THEN Append(batches, current) ELSE batches
         IN IF cur1 = <<>> /\ estimate > EMBEDDING_BATCH_MAX_TOKENS
            THEN BatchFold(chunks, i + 1, cur1, tok1, Append(bat1, <<chunks[i]>>))
            ELSE BatchFold(chunks, i + 1, Append(cur1, chunks[i]), tok1 + estimate, bat1)

\* A batching that never closes a batch.
buildEmbeddingBatchesAsOne(chunks) == IF chunks = <<>> THEN <<>> ELSE <<chunks>>

buildEmbeddingBatches(chunks) == BatchFold(chunks, 1, <<>>, 0, <<>>)


(***************************************************************************)
(* State                                                                   *)
(***************************************************************************)
VARIABLES
    disk,          \* path -> the file's lines, or NoFile
    cfg,           \* the open instance: provider, providerKey, chunking
    ftsAvailable,  \* fts.available, set by ensureSchema
    db,            \* the store: files, chunks, fts, meta, cache
    syncPc,        \* where the sync call stands
    sy,            \* sync's locals
    job,           \* indexFile's and embedChunksInBatches' locals
    last,          \* how the last sync call ended: "none", "ok", "err"
    hist,          \* history of the sync call in progress or just ended
    since,         \* what happened since the last successful sync
    nSyncs, nEdits, nReopens, nFaults,
    srch,          \* the search call: where it stands, its locals, its result
    unit           \* one call of a scorer or of the merger: inputs and output

vars ==
    <<disk, cfg, ftsAvailable, db, syncPc, sy, job, last, hist, since,
      nSyncs, nEdits, nReopens, nFaults, srch, unit>>

NoSync ==
    [force |-> FALSE, needsFullReindex |-> FALSE, fileEntries |-> <<>>,
     activePaths |-> {}, i |-> 1]

NoJob ==
    [phase |-> "none", path |-> "", hash |-> hashText(NoFile), chunks |-> <<>>,
     embeddings |-> <<>>, missing |-> <<>>, batches |-> <<>>, bi |-> 1,
     cursor |-> 0, toCache |-> <<>>,
     cache0 |-> EmptyCache, sent |-> {}, got |-> <<>>]

NoHist ==
    [valid |-> FALSE, force |-> FALSE, since0 |-> "dirty", db0 |-> EmptyDb,
     cfg0 |-> BaseConfig, calls |-> {}, skipped |-> {}, indexed |-> {},
     errors |-> {},
     metaWrites |-> 0]

NoSearch ==
    [pc |-> "idle", query |-> <<>>, optMinScore |-> <<>>, optMaxResults |-> <<>>,
     cleaned |-> <<>>, minScore |-> 0, maxResults |-> 0,
     candidates |-> 0, keywordResults |-> <<>>, queryVec |-> <<>>,
     hasVector |-> FALSE, vectorResults |-> <<>>,
     route |-> "none", ranked |-> <<>>, results |-> <<>>, embedCalls |-> 0,
     scorers |-> {}, db0 |-> EmptyDb]

NoUnit == [pc |-> "none"]

Init ==
    /\ disk = InitialDisk
    /\ cfg = BaseConfig
    /\ ftsAvailable \in BOOLEAN
    /\ db = EmptyDb
    /\ syncPc = "idle"
    /\ sy = NoSync
    /\ job = NoJob
    /\ last = "none"
    /\ hist = NoHist
    /\ since = "dirty"
    /\ nSyncs = 0 /\ nEdits = 0 /\ nReopens = 0 /\ nFaults = 0
    /\ srch = NoSearch
    /\ unit = NoUnit

(***************************************************************************)
(* The environment between calls                                           *)
(***************************************************************************)
\* The user writes or deletes a memory file.
Edit(p, content) ==
    /\ syncPc = "idle"
    /\ nEdits < MaxEdits
    /\ content # disk[p]
    /\ disk' = [disk EXCEPT ![p] = content]
    /\ since' = IF since = "clean" /\ content = NoFile
                   /\ \E f \in db.files : f.path = p
                THEN "del1" ELSE "dirty"
    /\ hist' = NoHist
    /\ nEdits' = nEdits + 1
    /\ UNCHANGED <<srch, unit, cfg, ftsAvailable, db, syncPc, sy, job, last, nSyncs, nReopens, nFaults>>

\* close(), then MemoryIndex.create with another configuration on the same
\* database file.
Reopen(c) ==
    /\ syncPc = "idle"
    /\ nReopens < MaxReopens
    /\ c # cfg
    /\ cfg' = c
    /\ since' = "dirty"
    /\ hist' = NoHist
    /\ nReopens' = nReopens + 1
    /\ UNCHANGED <<srch, unit, disk, ftsAvailable, db, syncPc, sy, job, last, nSyncs, nEdits, nFaults>>

(***************************************************************************)
(* sync                                                                    *)
(***************************************************************************)
\* The faults of the environment (a provider call that rejects or answers
\* without vectors, a statement of the store that throws) are counted.
FaultIf(isFault) ==
    /\ isFault => nFaults < MaxFaults
    /\ nFaults' = IF isFault THEN nFaults + 1 ELSE nFaults

\* sync up to its first await: readMeta, the reindex decision, resetIndex.
SyncStart(force, ftsOk) ==
    /\ syncPc = "idle"
    /\ nSyncs < MaxSyncs
    /\ LET needs == needsFullReindex(force, readMeta(db), cfg)
       IN /\ db' = IF needs THEN resetIndex(db, ftsAvailable, ftsOk) ELSE db
          /\ sy' = [NoSync EXCEPT !.force = force, !.needsFullReindex = needs]
          /\ hist' = [NoHist EXCEPT !.valid = TRUE, !.force = force,
                                    !.since0 = since, !.db0 = db, !.cfg0 = cfg,
                                    !.errors = IF needs /\ ftsAvailable /\ ~ftsOk
                                               THEN {"resetFts"} ELSE {}]
          /\ FaultIf(needs /\ ftsAvailable /\ ~ftsOk)
    /\ syncPc' = "scan"
    /\ job' = NoJob
    /\ last' = "none"
    /\ since' = "dirty"
    /\ nSyncs' = nSyncs + 1
    /\ UNCHANGED <<srch, unit, disk, cfg, ftsAvailable, nEdits, nReopens>>

\* listMemoryFiles and buildFileEntry: the files on disk, each with the hash
\* of its content.
buildFileEntries(order) ==
    SelectSeq([k \in 1..Len(order) |->
                  [path |-> order[k], hash |-> hashText(disk[order[k]])]],
              LAMBDA e : disk[e.path] # NoFile)

SyncScan ==
    /\ syncPc = "scan"
    /\ LET entries == buildFileEntries(PathOrder)
       IN sy' = [sy EXCEPT !.fileEntries = entries,
                           !.activePaths = {entries[k].path : k \in 1..Len(entries)},
                           !.i = 1]
    /\ syncPc' = "loop"
    /\ UNCHANGED <<srch, unit, disk, cfg, ftsAvailable, db, job, last, hist, since,
                   nSyncs, nEdits, nReopens, nFaults>>

\* A loop that skips nothing.
SkipNever(d, needs, entry) == FALSE

\* The loop's test: not a full reindex and the stored hash is the entry's.

SkipsFile(d, needs, entry) ==
    /\ ~needs
    /\ \E f \in d.files : f.path = entry.path /\ f.hash = entry.hash

SyncSkipFile ==
    /\ syncPc = "loop"
    /\ sy.i <= Len(sy.fileEntries)
    /\ SkipsFile(db, sy.needsFullReindex, sy.fileEntries[sy.i])
    /\ sy' = [sy EXCEPT !.i = @ + 1]
    /\ hist' = [hist EXCEPT !.skipped = @ \cup {sy.fileEntries[sy.i].path}]
    /\ UNCHANGED <<srch, unit, disk, cfg, ftsAvailable, db, syncPc, job, last, since,
                   nSyncs, nEdits, nReopens, nFaults>>

\* The chunks indexFile keeps: those with text left after trim.
KeptChunks(lines, c) ==
    SelectSeq(chunkMarkdown(lines, c.chunkTokens, c.chunkOverlap),
              LAMBDA ch : Trim(ch.text) # <<>>)

\* A lookup in which every stored entry counts as a hit.
StartJobAnyEntryHits(d, c, entry, lines) ==
    LET chunks == KeptChunks(lines, c)
        cached == loadEmbeddingCache(d, c, {chunks[k].hash : k \in 1..Len(chunks)})
        hit(k) == IF chunks[k].hash \in DOMAIN cached
                  THEN cached[chunks[k].hash] ELSE <<>>
        missing == SelectSeq([k \in 1..Len(chunks) |-> k],
                             LAMBDA k : chunks[k].hash \notin DOMAIN cached)
    IN [NoJob EXCEPT
          !.phase = IF missing = <<>> THEN "write" ELSE "embed",
          !.path = entry.path, !.hash = entry.hash, !.chunks = chunks,
          !.embeddings = [k \in 1..Len(chunks) |-> hit(k)],
          !.missing = missing,
          !.batches = buildEmbeddingBatches([k \in 1..Len(missing) |-> chunks[missing[k]]]),
          !.cache0 = d.cache,
          !.got = [k \in 1..Len(chunks) |-> <<>>]]

\* embedChunksInBatches up to its first await: the cache lookup, the hits
\* taken over, the misses batched.
EmbedStart(d, c, entry, chunks) ==
    LET cached == loadEmbeddingCache(d, c, {chunks[k].hash : k \in 1..Len(chunks)})
        hit(k) == IF chunks[k].hash \in DOMAIN cached
                  THEN cached[chunks[k].hash] ELSE <<>>
        missing == SelectSeq([k \in 1..Len(chunks) |-> k],
                             LAMBDA k : Len(hit(k)) = 0)
    IN [NoJob EXCEPT
          !.phase = IF missing = <<>> THEN "write" ELSE "embed",
          !.path = entry.path, !.hash = entry.hash, !.chunks = chunks,
          !.embeddings = [k \in 1..Len(chunks) |-> hit(k)],
          !.missing = missing,
          !.batches = buildEmbeddingBatches([k \in 1..Len(missing) |-> chunks[missing[k]]]),
          !.cache0 = d.cache,
          !.got = [k \in 1..Len(chunks) |-> <<>>]]

\* indexFile up to the first await of embedChunksInBatches.
StartJob(d, c, entry, lines) == EmbedStart(d, c, entry, KeptChunks(lines, c))

\* The loop goes into indexFile: readFile, chunkMarkdown, the cache lookup.
IndexFileBegin ==
    /\ syncPc = "loop"
    /\ sy.i <= Len(sy.fileEntries)
    /\ ~SkipsFile(db, sy.needsFullReindex, sy.fileEntries[sy.i])
    /\ job' = StartJob(db, cfg, sy.fileEntries[sy.i], disk[sy.fileEntries[sy.i].path])
    /\ syncPc' = job'.phase
    /\ hist' = [hist EXCEPT !.indexed = @ \cup {sy.fileEntries[sy.i].path}]
    /\ UNCHANGED <<srch, unit, disk, cfg, ftsAvailable, db, sy, last, since,
                   nSyncs, nEdits, nReopens, nFaults>>

\* One embedBatch call answered: its vectors go to the chunks that missed,
\* and after the last batch to the cache.
\* Answers placed from the first miss on in every batch.
RECURSIVE ApplyBatchNoCursor(_, _, _, _)
ApplyBatchNoCursor(j, batch, batchEmbeddings, k) ==
    IF k > Len(batch) THEN [j EXCEPT !.cursor = @ + Len(batch), !.bi = @ + 1]
    ELSE LET embedding == IF k <= Len(batchEmbeddings) THEN batchEmbeddings[k] ELSE <<>>
             at == k
         IN IF at <= Len(j.missing)
            THEN ApplyBatchNoCursor(
                    [j EXCEPT !.embeddings[j.missing[at]] = embedding,
                              !.got[j.missing[at]] = embedding,
                              !.sent = @ \cup {j.missing[at]},
                              !.toCache = Append(@, [hash |-> j.chunks[j.missing[at]].hash,
                                                     embedding |-> embedding])],
                    batch, batchEmbeddings, k + 1)
            ELSE ApplyBatchNoCursor(j, batch, batchEmbeddings, k + 1)

RECURSIVE ApplyBatch(_, _, _, _)
ApplyBatch(j, batch, batchEmbeddings, k) ==
    IF k > Len(batch) THEN [j EXCEPT !.cursor = @ + Len(batch), !.bi = @ + 1]
    ELSE LET embedding == IF k <= Len(batchEmbeddings) THEN batchEmbeddings[k] ELSE <<>>
             at == j.cursor + k
         IN IF at <= Len(j.missing)
            THEN ApplyBatch([j EXCEPT !.embeddings[j.missing[at]] = embedding,
                                      !.got[j.missing[at]] = embedding,
                                      !.sent = @ \cup {j.missing[at]},
                                      !.toCache = Append(@, [hash |-> j.chunks[j.missing[at]].hash,
                                                             embedding |-> embedding])],
                            batch, batchEmbeddings, k + 1)
            ELSE ApplyBatch(j, batch, batchEmbeddings, k + 1)

BatchTexts(batch) == [k \in 1..Len(batch) |-> batch[k].text]

\* Answers written to the cache after every batch.
EmbedBatchOkCachingEach(mode) ==
    /\ syncPc = "embed"
    /\ mode = "empty" => cfg.provider.id = "openai"
    /\ LET batch == job.batches[job.bi]
           j1 == ApplyBatch(job, batch, embedBatch(cfg.provider, BatchTexts(batch), mode), 1)
           isLast == j1.bi > Len(j1.batches)
       IN /\ job' = [j1 EXCEPT !.phase = IF isLast THEN "write" ELSE "embed"]
          /\ db' = upsertEmbeddingCache(db, cfg, j1.toCache, 1)
          /\ syncPc' = IF isLast THEN "write" ELSE "embed"
    /\ hist' = [hist EXCEPT !.calls = @ \cup {job.path}]
    /\ FaultIf(mode # "ok")
    /\ UNCHANGED <<srch, unit, disk, cfg, ftsAvailable, sy, last, since, nSyncs, nEdits, nReopens>>

EmbedBatchOk(mode) ==
    /\ syncPc = "embed"
    /\ mode = "empty" => cfg.provider.id = "openai"
    /\ LET batch == job.batches[job.bi]
           j1 == ApplyBatch(job, batch, embedBatch(cfg.provider, BatchTexts(batch), mode), 1)
           isLast == j1.bi > Len(j1.batches)
       IN /\ job' = [j1 EXCEPT !.phase = IF isLast THEN "write" ELSE "embed"]
          /\ db' = IF isLast THEN upsertEmbeddingCache(db, cfg, j1.toCache, 1) ELSE db
          /\ syncPc' = IF isLast THEN "write" ELSE "embed"
    /\ hist' = [hist EXCEPT !.calls = @ \cup {job.path}]
    /\ FaultIf(mode # "ok")
    /\ UNCHANGED <<srch, unit, disk, cfg, ftsAvailable, sy, last, since, nSyncs, nEdits, nReopens>>

\* A failed sync call: the error leaves sync before writeMeta.
Abort(kind) ==
    /\ syncPc' = "idle"
    /\ sy' = NoSync
    /\ last' = "err"
    /\ hist' = [hist EXCEPT !.errors = @ \cup {kind}]
    /\ FaultIf(TRUE)
    /\ UNCHANGED <<srch, unit, disk, cfg, ftsAvailable, since, nSyncs, nEdits, nReopens>>

\* embedBatch rejects.
EmbedBatchFail ==
    /\ syncPc = "embed"
    /\ Abort("provider")
    /\ job' = NoJob
    /\ UNCHANGED db

\* indexFile after the embeddings: the path's rows replaced, the file record
\* upserted.
IndexFileWrite(ftsOk) ==
    /\ syncPc = "write"
    /\ db' = WriteFile(db, cfg, job, ftsAvailable, ftsOk)
    /\ job' = [job EXCEPT !.phase = "written"]
    /\ sy' = [sy EXCEPT !.i = @ + 1]
    /\ syncPc' = "loop"
    /\ hist' = [hist EXCEPT !.errors = IF ftsAvailable /\ ~ftsOk
                                       THEN @ \cup {"indexFts"} ELSE @]
    /\ FaultIf(ftsAvailable /\ ~ftsOk)
    /\ UNCHANGED <<srch, unit, disk, cfg, ftsAvailable, last, since, nSyncs, nEdits, nReopens>>

\* A statement of the write half throws (outside the guarded full-text
\* DELETE) after `done` chunks were inserted.
IndexFileWriteFail(done) ==
    /\ syncPc = "write"
    /\ done \in {0, Len(job.chunks)}
    /\ db' = WriteFilePartial(db, cfg, job, done, ftsAvailable, TRUE)
    /\ job' = NoJob
    /\ Abort("storage")

\* After the loop: the stale rows go.
SyncRemoveStale(ftsOk) ==
    /\ syncPc = "loop"
    /\ sy.i > Len(sy.fileEntries)
    /\ db' = RemoveStale(db, cfg, sy.activePaths, ftsAvailable, ftsOk)
    /\ syncPc' = "meta"
    /\ hist' = [hist EXCEPT !.errors =
                    IF ftsAvailable /\ ~ftsOk
                       /\ {f.path : f \in db.files} \ sy.activePaths # {}
                    THEN @ \cup {"staleFts"} ELSE @]
    /\ FaultIf(/\ ftsAvailable /\ ~ftsOk
               /\ {f.path : f \in db.files} \ sy.activePaths # {})
    /\ UNCHANGED <<srch, unit, disk, cfg, ftsAvailable, sy, job, last, since,
                   nSyncs, nEdits, nReopens>>

\* syncMemoryFiles returned: sync writes the metadata and ends.
SyncWriteMeta ==
    /\ syncPc = "meta"
    /\ db' = writeMeta(db, MetaOf(cfg))
    /\ syncPc' = "idle"
    /\ sy' = NoSync
    /\ last' = "ok"
    /\ since' = "clean"
    /\ job' = NoJob
    /\ hist' = [hist EXCEPT !.metaWrites = @ + 1]
    /\ UNCHANGED <<srch, unit, disk, cfg, ftsAvailable, nSyncs, nEdits, nReopens, nFaults>>

(***************************************************************************)
(* search: the scorers.  A score is a whole number of ten-thousandths      *)
(* (10000 is 1.0), a weight a whole number of tenths.                       *)
(***************************************************************************)
SNIPPET_MAX_CHARS == 700
DefaultMaxResults == 6
DefaultMinScore == 3500

truncateUtf16Safe(text, maxChars) == SubSeq(text, 1, Min(Len(text), maxChars))

\* Array.prototype.slice(0, n): a negative n counts from the end.
Take(seq, n) ==
    SubSeq(seq, 1, IF n < 0 THEN Max(Len(seq) + n, 0) ELSE Min(Len(seq), n))

\* An array left as it is.
SortNoop(seq) == seq

\* An insertion that puts an entry before the entries of its own score.
RECURSIVE InsertBeforeEqual(_, _)
InsertBeforeEqual(sorted, e) ==
    IF sorted = <<>> THEN <<e>>
    ELSE IF sorted[Len(sorted)].score > e.score THEN Append(sorted, e)
    ELSE Append(InsertBeforeEqual(SubSeq(sorted, 1, Len(sorted) - 1), e),
                sorted[Len(sorted)])

\* Array.prototype.sort by descending score: stable.
RECURSIVE InsertDesc(_, _)
InsertDesc(sorted, e) ==
    IF sorted = <<>> THEN <<e>>
    ELSE IF sorted[Len(sorted)].score >= e.score THEN Append(sorted, e)
    ELSE Append(InsertDesc(SubSeq(sorted, 1, Len(sorted) - 1), e), sorted[Len(sorted)])

RECURSIVE SortDesc(_)
SortDesc(seq) ==
    IF seq = <<>> THEN <<>>
    ELSE InsertDesc(SortDesc(SubSeq(seq, 1, Len(seq) - 1)), seq[Len(seq)])

RECURSIVE Dot(_, _, _)
Dot(a, b, n) == IF n = 0 THEN 0 ELSE a[n] * b[n] + Dot(a, b, n - 1)

\* The root of a square.
Root(n) == CHOOSE r \in 0..n : r * r = n

\* cosineSimilarity: 0 for an empty vector, dot / (|a| |b|) over the common
\* length, not a finite number when a magnitude is zero.
cosineSimilarity(a, b) ==
    IF a = <<>> \/ b = <<>> THEN [finite |-> TRUE, v |-> 0]
    ELSE LET n == Min(Len(a), Len(b))
             na == Root(Dot(a, a, n))
             nb == Root(Dot(b, b, n))
         IN IF na = 0 \/ nb = 0 THEN [finite |-> FALSE, v |-> 0]
            ELSE [finite |-> TRUE, v |-> (Dot(a, b, n) * 10000) \div (na * nb)]

\* The rows of a table, one after the other.
RECURSIVE RowSeq(_)
RowSeq(rows) ==
    IF rows = {} THEN <<>>
    ELSE LET r == CHOOSE x \in rows : TRUE IN <<r>> \o RowSeq(rows \ {r})

\* SELECT ... FROM chunks WHERE model = ?, the embedding parsed.
listChunks(d, providerModel) ==
    LET rows == RowSeq({c \in d.chunks : c.model = providerModel})
    IN [k \in 1..Len(rows) |->
          [id |-> rows[k].id, path |-> rows[k].path,
           startLine |-> rows[k].startLine, endLine |-> rows[k].endLine,
           text |-> rows[k].text, embedding |-> parseEmbedding(rows[k].embedding)]]

searchVector(d, providerModel, queryVec, limit) ==
    IF queryVec = <<>> \/ limit <= 0 THEN <<>>
    ELSE LET candidates == listChunks(d, providerModel)
             scored == SelectSeq(
                 [k \in 1..Len(candidates) |->
                     [chunk |-> candidates[k],
                      sim |-> cosineSimilarity(queryVec, candidates[k].embedding)]],
                 LAMBDA e : e.sim.finite)
             ranked == Take(SortDesc([k \in 1..Len(scored) |->
                                        [chunk |-> scored[k].chunk,
                                         score |-> scored[k].sim.v]]), limit)
         IN [k \in 1..Len(ranked) |->
               [id |-> ranked[k].chunk.id, path |-> ranked[k].chunk.path,
                startLine |-> ranked[k].chunk.startLine,
                endLine |-> ranked[k].chunk.endLine, score |-> ranked[k].score,
                snippet |-> truncateUtf16Safe(ranked[k].chunk.text, SNIPPET_MAX_CHARS)]]

\* The words of a text: the runs of characters between blanks.
RECURSIVE Words(_, _, _)
Words(text, i, cur) ==
    IF i > Len(text) THEN (IF cur = <<>> THEN <<>> ELSE <<cur>>)
    ELSE IF IsBlank(text[i])
         THEN (IF cur = <<>> THEN <<>> ELSE <<cur>>) \o Words(text, i + 1, <<>>)
         ELSE Words(text, i + 1, Append(cur, text[i]))

\* buildFtsQuery: the tokens of the query, each quoted, AND-joined; none for
\* a query without a token.
buildFtsQuery(raw) == Words(raw, 1, <<>>)

\* chunks_fts MATCH ?: every token of the query is a word of the row's text.
Matches(rowText, ftsQuery) ==
    LET words == Words(rowText, 1, <<>>)
    IN \A k \in 1..Len(ftsQuery) : \E w \in 1..Len(words) : words[w] = ftsQuery[k]

\* A transform that takes the size of the rank, whatever its sign.
RankToScoreUnclamped(rank) == 10000 \div (1 + (IF rank < 0 THEN 0 - rank ELSE rank))

\* bm25RankToScore: 1 / (1 + max(0, rank)).
bm25RankToScore(rank) == 10000 \div (1 + Max(0, rank))

\* The full-text rows a query selects for a model.
MatchedRows(d, providerModel, query) ==
    {r \in DOMAIN d.fts : r.model = providerModel
                          /\ Matches(r.text, buildFtsQuery(query))}

\* A row as often as the table holds it.
RECURSIVE Copies(_, _)
Copies(e, n) == IF n = 0 THEN <<>> ELSE <<e>> \o Copies(e, n - 1)

RECURSIVE Flatten(_)
Flatten(seqs) == IF seqs = <<>> THEN <<>> ELSE Head(seqs) \o Flatten(Tail(seqs))

\* searchKeyword; rankOf is what bm25 answers for each row.
searchKeyword(d, providerModel, query, limit, rankOf) ==
    IF limit <= 0 \/ buildFtsQuery(query) = <<>> THEN <<>>
    ELSE LET rows == RowSeq(MatchedRows(d, providerModel, query))
             all == Flatten([k \in 1..Len(rows) |->
                       Copies([row |-> rows[k], score |-> 0 - rankOf[rows[k]]],
                              d.fts[rows[k]])])
             ranked == Take(SortDesc(all), limit)
         IN [k \in 1..Len(ranked) |->
               [id |-> ranked[k].row.id, path |-> ranked[k].row.path,
                startLine |-> ranked[k].row.startLine,
                endLine |-> ranked[k].row.endLine,
                score |-> bm25RankToScore(0 - ranked[k].score),
                textScore |-> bm25RankToScore(0 - ranked[k].score),
                snippet |-> truncateUtf16Safe(ranked[k].row.text, SNIPPET_MAX_CHARS)]]

\* mergeHybridResults: the union by id, vector entries first; the side an id
\* is missing from counts zero; a keyword entry's snippet wins; descending.
IndexesOf(seq, id) == {k \in 1..Len(seq) : seq[k].id = id}

\* The entries of a list that carry an id.
EntriesOf(seq, id) == SelectSeq(seq, LAMBDA e : e.id = id)

\* Only the ids of the vector list.
VectorIdsOnly(vector, keyword) == [k \in 1..Len(vector) |-> vector[k].id]

\* The ids of the two lists, each once, in the order they are met.
MergedIds(vector, keyword) ==
    LET firstOnly == SelectSeq([k \in 1..Len(keyword) |-> k],
                        LAMBDA k : /\ IndexesOf(vector, keyword[k].id) = {}
                                   /\ \A j \in 1..(k - 1) : keyword[j].id # keyword[k].id)
    IN [k \in 1..Len(vector) |-> vector[k].id]
          \o [k \in 1..Len(firstOnly) |-> keyword[firstOnly[k]].id]

\* A score that divides by the weights of the lists the entry is in.
CombinedScoreRenormalized(vectorScore, textScore, vectorWeight, textWeight) ==
    IF textScore = 0 THEN vectorScore
    ELSE IF vectorScore = 0 THEN textScore
    ELSE (vectorWeight * vectorScore + textWeight * textScore) \div 10

\* The two scores added without their weights.
CombinedScoreUnweighted(vectorScore, textScore, vectorWeight, textWeight) ==
    vectorScore + textScore

\* vectorWeight * vectorScore + textWeight * textScore, the weights in tenths.
CombinedScore(vectorScore, textScore, vectorWeight, textWeight) ==
    (vectorWeight * vectorScore + textWeight * textScore) \div 10

\* The snippet of the entry's first list, whatever the keyword list holds.
FirstSnippet(base, keywordEntries) == base.snippet

\* The snippet of a merged entry: the keyword entry's when there is one.
MergedSnippet(base, keywordEntries) ==
    IF keywordEntries # <<>> THEN keywordEntries[Len(keywordEntries)].snippet
    ELSE base.snippet

mergeHybridResults(vector, keyword, vectorWeight, textWeight) ==
    LET ids == MergedIds(vector, keyword)
        entry(id) ==
            LET vec == EntriesOf(vector, id)
                kw == EntriesOf(keyword, id)
                base == IF vec # <<>> THEN vec[Len(vec)] ELSE kw[Len(kw)]
                vectorScore == IF vec # <<>> THEN vec[Len(vec)].score ELSE 0
                textScore == IF kw # <<>> THEN kw[Len(kw)].textScore ELSE 0
            IN [id |-> id, path |-> base.path, startLine |-> base.startLine,
                endLine |-> base.endLine,
                score |-> CombinedScore(vectorScore, textScore,
                                        vectorWeight, textWeight),
                snippet |-> MergedSnippet(base, kw)]
    IN SortDesc([k \in 1..Len(ids) |-> entry(ids[k])])

\* A filter that lets every entry through.
FilterNothing(entries, minScore) == entries

\* .filter((entry) => entry.score >= minScore)
FilterByMinScore(entries, minScore) ==
    SelectSeq(entries, LAMBDA e : e.score >= minScore)

\* .slice(0, maxResults).map(...): the fields of a result.
ToResults(entries, maxResults) ==
    LET kept == Take(entries, maxResults)
    IN [k \in 1..Len(kept) |->
          [path |-> kept[k].path, startLine |-> kept[k].startLine,
           endLine |-> kept[k].endLine, score |-> kept[k].score,
           snippet |-> kept[k].snippet]]

(***************************************************************************)
(* search: the call                                                        *)
(***************************************************************************)
Queries ==
    {<<>>, <<SP>>, <<NL, SP>>, <<LA>>, <<SP, LB, NL>>, <<LA, LB>>, <<LA, SP, LB>>}

\* opts.minScore and opts.maxResults: absent, or a number.
OptMinScores == {<<>>, <<0>>, <<2000>>, <<9900>>}
OptMaxResults == {<<>>, <<0>>, <<1>>, <<0 - 1>>}

\* What bm25 may answer for a row.
Ranks == {0 - 1, 1, 3}

\* What embedQuery may answer: the text's vector, a vector of zeros, or (the
\* remote provider) no vector.
QueryModes == {"ok", "zero", "empty"}

embedQuery(p, text, mode) ==
    IF mode = "zero" THEN <<0, 0>>
    ELSE IF mode = "empty" /\ p.id = "openai" THEN <<>>
    ELSE Emb(p, text)

syncVars ==
    <<disk, cfg, ftsAvailable, db, syncPc, sy, job, last, hist, since,
      nSyncs, nEdits, nReopens, nFaults>>

\* search up to its await: the trimmed query, the options, the keyword search.
SearchCall(query, optMinScore, optMaxResults) ==
    /\ srch.pc = "idle"
    /\ LET cleaned == Trim(query)
           minScore == IF optMinScore = <<>> THEN DefaultMinScore ELSE optMinScore[1]
           maxResults == IF optMaxResults = <<>> THEN DefaultMaxResults
                         ELSE optMaxResults[1]
           candidates == Min(200, Max(1, maxResults * 3))
       IN IF cleaned = <<>>
          THEN srch' = [NoSearch EXCEPT !.pc = "done", !.query = query,
                                        !.optMinScore = optMinScore,
                                        !.optMaxResults = optMaxResults]
          ELSE \E rankOf \in [MatchedRows(db, cfg.provider.model, cleaned) -> Ranks] :
                  srch' = [NoSearch EXCEPT
                      !.pc = "embedding", !.query = query, !.cleaned = cleaned,
                      !.optMinScore = optMinScore, !.optMaxResults = optMaxResults,
                      !.minScore = minScore, !.maxResults = maxResults,
                      !.candidates = candidates, !.db0 = db,
                      !.keywordResults =
                          IF ftsAvailable
                          THEN searchKeyword(db, cfg.provider.model, cleaned,
                                             candidates, rankOf)
                          ELSE <<>>,
                      !.scorers = IF ftsAvailable THEN {"keyword"} ELSE {}]
    /\ UNCHANGED <<unit, syncVars>>

\* search called while no sync is running.
SearchStart(query, optMinScore, optMaxResults) ==
    /\ syncPc = "idle"
    /\ SearchCall(query, optMinScore, optMaxResults)

\* A search that keeps the query's vector in the embedding cache.
SearchEmbeddedCachingQuery(mode) ==
    /\ srch.pc = "embedding"
    /\ mode = "empty" => cfg.provider.id = "openai"
    /\ LET queryVec == embedQuery(cfg.provider, srch.cleaned, mode)
       IN /\ srch' = [srch EXCEPT !.pc = "done", !.queryVec = queryVec,
                                  !.embedCalls = @ + 1]
          /\ db' = upsertEmbeddingCache(db, cfg,
                      <<[hash |-> hashText(srch.cleaned), embedding |-> queryVec]>>, 1)
    /\ UNCHANGED <<unit, disk, cfg, ftsAvailable, syncPc, sy, job, last, hist,
                   since, nSyncs, nEdits, nReopens, nFaults>>

\* A search whose vector scorer reads the store as it was at the call.
SearchEmbeddedOnSnapshot(mode) ==
    /\ srch.pc = "embedding"
    /\ mode = "empty" => cfg.provider.id = "openai"
    /\ LET queryVec == embedQuery(cfg.provider, srch.cleaned, mode)
           hasVector == \E k \in 1..Len(queryVec) : queryVec[k] # 0
           vectorResults ==
               IF hasVector
               THEN searchVector(srch.db0, cfg.provider.model, queryVec,
                                 srch.candidates)
               ELSE <<>>
           ranked ==
               IF ~ftsAvailable THEN vectorResults
               ELSE mergeHybridResults(vectorResults, srch.keywordResults,
                                       cfg.vectorWeight, cfg.textWeight)
       IN srch' = [srch EXCEPT
              !.pc = "done", !.queryVec = queryVec, !.hasVector = hasVector,
              !.vectorResults = vectorResults,
              !.route = IF ~ftsAvailable THEN "vector" ELSE "hybrid",
              !.ranked = ranked,
              !.results = ToResults(FilterByMinScore(ranked, srch.minScore),
                                    srch.maxResults),
              !.embedCalls = @ + 1,
              !.scorers = @ \cup (IF hasVector THEN {"vector"} ELSE {})
                            \cup (IF ftsAvailable THEN {"merge"} ELSE {})]
    /\ UNCHANGED <<unit, syncVars>>

\* embedQuery answered: the vector search, the merge, the filter, the cut.
SearchEmbedded(mode) ==
    /\ srch.pc = "embedding"
    /\ mode = "empty" => cfg.provider.id = "openai"
    /\ LET queryVec == embedQuery(cfg.provider, srch.cleaned, mode)
           hasVector == \E k \in 1..Len(queryVec) : queryVec[k] # 0
           vectorResults ==
               IF hasVector
               THEN searchVector(db, cfg.provider.model, queryVec, srch.candidates)
               ELSE <<>>
           ranked ==
               IF ~ftsAvailable THEN vectorResults
               ELSE mergeHybridResults(vectorResults, srch.keywordResults,
                                       cfg.vectorWeight, cfg.textWeight)
       IN srch' = [srch EXCEPT
              !.pc = "done", !.queryVec = queryVec, !.hasVector = hasVector,
              !.vectorResults = vectorResults,
              !.route = IF ~ftsAvailable THEN "vector" ELSE "hybrid",
              !.ranked = ranked,
              !.results = ToResults(FilterByMinScore(ranked, srch.minScore),
                                    srch.maxResults),
              !.embedCalls = @ + 1,
              !.scorers = @ \cup (IF hasVector THEN {"vector"} ELSE {})
                            \cup (IF ftsAvailable THEN {"merge"} ELSE {})]
    /\ UNCHANGED <<unit, syncVars>>

\* embedQuery rejects: search throws.
SearchEmbedFail ==
    /\ srch.pc = "embedding"
    /\ srch' = [srch EXCEPT !.pc = "failed", !.embedCalls = @ + 1]
    /\ UNCHANGED <<unit, syncVars>>

\* The caller has the result, or the error.
SearchReturn ==
    /\ srch.pc \in {"done", "failed"}
    /\ srch' = NoSearch
    /\ UNCHANGED <<unit, syncVars>>

\* status(): the counts of the file and chunk records and the provider.
StatusCall ==
    /\ unit' = [pc |-> "status",
                files |-> Cardinality(db.files),
                chunks |-> Cardinality(db.chunks),
                provider |-> cfg.provider.id,
                model |-> cfg.provider.model,
                ftsAvailable |-> ftsAvailable]
    /\ UNCHANGED <<srch, syncVars>>

(***************************************************************************)
(* Specifications                                                          *)
(***************************************************************************)
Environment ==
    \/ \E p \in Paths, content \in Contents \cup {NoFile} : Edit(p, content)
    \/ \E c \in Configs : Reopen(c)

SyncSteps(ftsOks) ==
    \/ \E force \in BOOLEAN, ok \in ftsOks : SyncStart(force, ok)
    \/ SyncScan
    \/ SyncSkipFile
    \/ IndexFileBegin
    \/ \E mode \in BatchModes : EmbedBatchOk(mode)
    \/ EmbedBatchFail
    \/ \E ok \in ftsOks : IndexFileWrite(ok)
    \/ \E done \in 0..3 : IndexFileWriteFail(done)
    \/ \E ok \in ftsOks : SyncRemoveStale(ok)
    \/ SyncWriteMeta

Next == Environment \/ SyncSteps(BOOLEAN)

Spec == Init /\ [][Next]_vars

\* A sync that meets no fault, as one step: every file on disk indexed into
\* an empty store, the metadata written.
RECURSIVE RunBatches(_, _)
RunBatches(j, p) ==
    IF j.bi > Len(j.batches) THEN j
    ELSE RunBatches(ApplyBatch(j, j.batches[j.bi],
                               embedBatch(p, BatchTexts(j.batches[j.bi]), "ok"), 1), p)

RECURSIVE IndexAll(_, _, _, _, _, _)
IndexAll(d, c, files, entries, i, ftsAvail) ==
    IF i > Len(entries) THEN d
    ELSE LET j == RunBatches(StartJob(d, c, entries[i], files[entries[i].path]),
                             c.provider)
         IN IndexAll(WriteFile(upsertEmbeddingCache(d, c, j.toCache, 1),
                               c, j, ftsAvail, TRUE),
                     c, files, entries, i + 1, ftsAvail)

SyncedDb(c, files, ftsAvail) ==
    LET entries == SelectSeq([k \in 1..Len(PathOrder) |->
                                [path |-> PathOrder[k],
                                 hash |-> hashText(files[PathOrder[k]])]],
                             LAMBDA e : files[e.path] # NoFile)
    IN writeMeta(IndexAll(EmptyDb, c, files, entries, 1, ftsAvail), MetaOf(c))

\* search on an index a sync has built, opened with the configuration of
\* that sync or with another.
EqualWeightsConfig == [BaseConfig EXCEPT !.vectorWeight = 10, !.textWeight = 10]

InitSearch ==
    /\ disk = InitialDisk
    /\ cfg \in {BaseConfig, MkConfig(PO, 2, 0), EqualWeightsConfig}
    /\ ftsAvailable \in BOOLEAN
    /\ db \in {SyncedDb(c, InitialDisk, ftsAvailable) :
                  c \in {BaseConfig, MkConfig(PO, 2, 0), MkConfig(PL, 1, 0)}}
    /\ syncPc = "idle"
    /\ sy = NoSync
    /\ job = NoJob
    /\ last = "ok"
    /\ hist = NoHist
    /\ since = "dirty"
    /\ nSyncs = 0 /\ nEdits = 0 /\ nReopens = 0 /\ nFaults = 0
    /\ srch = NoSearch
    /\ unit = NoUnit

NextSearch ==
    \/ \E query \in Queries, optMinScore \in OptMinScores,
          optMaxResults \in OptMaxResults :
              SearchStart(query, optMinScore, optMaxResults)
    \/ \E mode \in QueryModes : SearchEmbedded(mode)
    \/ SearchEmbedFail
    \/ SearchReturn
    \/ StatusCall

SpecSearch == InitSearch /\ [][NextSearch]_vars

\* A parsed metadata value without the expected fields: every field reads
\* as undefined, which differs from every configured value.
UndefinedMeta ==
    [model |-> "undefined", provider |-> "undefined", providerKey |-> <<>>,
     chunkTokens |-> 0 - 1, chunkOverlap |-> 0 - 1]

\* Corrupt metadata rows: text that does not parse, an object without any
\* of the fields, the metadata of the configuration with one field missing.
CorruptMetas ==
    {[parses |-> FALSE, obj |-> UndefinedMeta],
     [parses |-> TRUE, obj |-> UndefinedMeta],
     [parses |-> TRUE, obj |-> [MetaOf(BaseConfig) EXCEPT !.chunkOverlap = 0 - 1]]}

\* sync on a store whose metadata row is corrupt: an empty store, or an
\* index that a sync has built, with or without its cache.
InitMeta ==
    /\ disk = InitialDisk
    /\ cfg = BaseConfig
    /\ ftsAvailable \in BOOLEAN
    /\ db \in {[base EXCEPT !.meta = <<m>>, !.cache = cache] :
                  base \in {EmptyDb, SyncedDb(BaseConfig, InitialDisk, ftsAvailable)},
                  m \in CorruptMetas,
                  cache \in {EmptyCache,
                             SyncedDb(BaseConfig, InitialDisk, ftsAvailable).cache}}
    /\ syncPc = "idle"
    /\ sy = NoSync
    /\ job = NoJob
    /\ last = "none"
    /\ hist = NoHist
    /\ since = "dirty"
    /\ nSyncs = 0 /\ nEdits = 0 /\ nReopens = 0 /\ nFaults = 0
    /\ srch = NoSearch
    /\ unit = NoUnit

NextMeta == SyncSteps(BOOLEAN)

SpecMeta == InitMeta /\ [][NextMeta]_vars

\* What a cache row may hold in place of its vector: text that is no JSON
\* array, or the empty array.
BadEmbeddings == {[parses |-> FALSE, arr |-> <<>>], JSONstringify(<<>>)}

\* The caches with the keys of a cache, each entry as it was or bad.
DamagedCaches(cache) ==
    {damaged \in [DOMAIN cache -> BadEmbeddings \cup {cache[k] : k \in DOMAIN cache}] :
        \A k \in DOMAIN cache : damaged[k] \in BadEmbeddings \cup {cache[k]}}

\* sync on a store whose cache holds bad entries: the store of a sync under
\* the open configuration, with its index and metadata or without them.
InitCache ==
    /\ disk = InitialDisk
    /\ cfg \in {BaseConfig, MkConfig(PO, 2, 0)}
    /\ ftsAvailable \in BOOLEAN
    /\ db \in {[base EXCEPT !.cache = damaged] :
                  base \in {EmptyDb, SyncedDb(cfg, InitialDisk, ftsAvailable)},
                  damaged \in DamagedCaches(SyncedDb(cfg, InitialDisk, ftsAvailable).cache)}
    /\ syncPc = "idle"
    /\ sy = NoSync
    /\ job = NoJob
    /\ last = "none"
    /\ hist = NoHist
    /\ since = "dirty"
    /\ nSyncs = 0 /\ nEdits = 0 /\ nReopens = 0 /\ nFaults = 0
    /\ srch = NoSearch
    /\ unit = NoUnit

NextCache == SyncSteps(BOOLEAN)

SpecCache == InitCache /\ [][NextCache]_vars

\* Every variable but `db` and `unit` at rest: the state around a call of one scorer.
AtRest ==
    /\ disk = InitialDisk
    /\ cfg = BaseConfig
    /\ ftsAvailable = TRUE
    /\ syncPc = "idle"
    /\ sy = NoSync
    /\ job = NoJob
    /\ last = "none"
    /\ hist = NoHist
    /\ since = "dirty"
    /\ nSyncs = 0 /\ nEdits = 0 /\ nReopens = 0 /\ nFaults = 0
    /\ srch = NoSearch

\* The sequences of at most n members of a set.
SeqsUpTo(S, n) == UNION {[1..m -> S] : m \in 0..n}

\* A list a scorer returns names no id twice.
DistinctIds(list) ==
    \A i, j \in 1..Len(list) : i # j => list[i].id # list[j].id

(***************************************************************************)
(* mergeHybridResults on lists of its own: the call in search (380-401)    *)
(* with every pair of lists, not only those one index gives.               *)
(***************************************************************************)
MaxListLen == 2

MergeIds == {"x", "y", "z"}
VectorScores == {0 - 3000, 9000}
TextScores == {5000, 10000}
WeightPairs == {<<7, 3>>, <<5, 5>>, <<10, 0>>}

VectorEntry(id, score) ==
    [id |-> id, path |-> <<"memory", id>>, startLine |-> 1, endLine |-> 2,
     score |-> score, snippet |-> <<"vec", id>>]

KeywordEntry(id, textScore) ==
    [id |-> id, path |-> <<"memory", id>>, startLine |-> 1, endLine |-> 2,
     score |-> textScore, textScore |-> textScore, snippet |-> <<"kw", id>>]

VectorLists ==
    {l \in SeqsUpTo({VectorEntry(id, sc) : id \in MergeIds, sc \in VectorScores},
                    MaxListLen) : DistinctIds(l)}

KeywordLists ==
    {l \in SeqsUpTo({KeywordEntry(id, sc) : id \in MergeIds, sc \in TextScores},
                    MaxListLen) : DistinctIds(l)}

InitMerge ==
    /\ AtRest
    /\ db = EmptyDb
    /\ unit \in {[pc |-> "merge", vector |-> v, keyword |-> k,
                  vectorWeight |-> w[1], textWeight |-> w[2], merged |-> <<>>] :
                    v \in VectorLists, k \in KeywordLists, w \in WeightPairs}

MergeCall ==
    /\ unit.pc = "merge"
    /\ unit' = [unit EXCEPT
           !.pc = "merged",
           !.merged = mergeHybridResults(unit.vector, unit.keyword,
                                         unit.vectorWeight, unit.textWeight)]
    /\ UNCHANGED <<srch, syncVars>>

NextMerge == MergeCall

SpecMerge == InitMerge /\ [][NextMerge]_vars

(***************************************************************************)
(* searchVector on chunk tables of its own: rows of the open model and of  *)
(* another, with stored vectors that are empty, all zero or neither.       *)
(***************************************************************************)
ChunkIds == {"c1", "c2", "c3"}
StoredVectors == {<<>>, <<0, 0>>, <<1, 0>>, <<3, 4>>, <<0 - 1, 0>>}
QueryVectors == {<<>>, <<0, 0>>, <<1, 0>>, <<3, 4>>}
Limits == {0 - 1, 0, 1, 2, 3}

ChunkRow(id, model, vec) ==
    [id |-> id, path |-> "MEMORY.md", startLine |-> 1, endLine |-> 1,
     hash |-> hashText(<<id>>), model |-> model, text |-> <<LA>>,
     embedding |-> JSONstringify(vec)]

ChunkTables ==
    {{ChunkRow(id, f[id][1], f[id][2]) : id \in S} :
        S \in SUBSET ChunkIds,
        f \in [ChunkIds -> {PL.model, PO.model} \X StoredVectors]}

InitVector ==
    /\ AtRest
    /\ db \in {[EmptyDb EXCEPT !.chunks = rows] : rows \in ChunkTables}
    /\ unit \in {[pc |-> "vector", queryVec |-> q, limit |-> n, ranked |-> <<>>] :
                    q \in QueryVectors, n \in Limits}

VectorCall ==
    /\ unit.pc = "vector"
    /\ unit' = [unit EXCEPT
           !.pc = "scored",
           !.ranked = searchVector(db, cfg.provider.model, unit.queryVec,
                                   unit.limit)]
    /\ UNCHANGED <<srch, syncVars>>

NextVector == VectorCall

SpecVector == InitVector /\ [][NextVector]_vars

(***************************************************************************)
(* bm25RankToScore on two ranks of its own (searchKeyword, search.ts 135). *)
(***************************************************************************)
MaxRank == 12

InitRank ==
    /\ AtRest
    /\ db = EmptyDb
    /\ unit \in {[pc |-> "rank", rank1 |-> r1, rank2 |-> r2,
                  score1 |-> 0, score2 |-> 0] :
                    r1 \in (0 - MaxRank)..MaxRank, r2 \in (0 - MaxRank)..MaxRank}

RankCall ==
    /\ unit.pc = "rank"
    /\ unit' = [unit EXCEPT !.pc = "scored",
                            !.score1 = bm25RankToScore(unit.rank1),
                            !.score2 = bm25RankToScore(unit.rank2)]
    /\ UNCHANGED <<srch, syncVars>>

NextRank == RankCall

SpecRank == InitRank /\ [][NextRank]_vars

(***************************************************************************)
(* chunkMarkdown on texts of its own: empty lines, short lines and lines   *)
(* longer than the budget, under every chunking with overlap < tokens.     *)
(***************************************************************************)
MaxLines == 3

ChunkLines ==
    {<<>>, <<LA>>, <<LB, LB, LB>>, <<LA, LB, LA, LB, LA>>, A4 \o <<LB>> \o A4}

Chunkings == {<<1, 0>>, <<2, 0>>, <<2, 1>>}

InitChunk ==
    /\ AtRest
    /\ db = EmptyDb
    /\ unit \in {[pc |-> "chunk", lines |-> ls, tokens |-> c[1],
                  overlap |-> c[2], chunks |-> <<>>] :
                    ls \in SeqsUpTo(ChunkLines, MaxLines) \ {<<>>},
                    c \in Chunkings}

ChunkCall ==
    /\ unit.pc = "chunk"
    /\ unit' = [unit EXCEPT
           !.pc = "chunked",
           !.chunks = chunkMarkdown(unit.lines, unit.tokens, unit.overlap)]
    /\ UNCHANGED <<srch, syncVars>>

NextChunk == ChunkCall

SpecChunk == InitChunk /\ [][NextChunk]_vars

(***************************************************************************)
(* readFile.  A path is a sequence of tokens: "/", "\\", ".", ".." and     *)
(* pieces of names; pieces that follow each other make one name, so that   *)
(* <<"w", "x">> is a name that starts with the name <<"w">>.               *)
(***************************************************************************)
IsPrefix(a, b) == Len(a) <= Len(b) /\ SubSeq(b, 1, Len(a)) = a

\* The components of a path: the runs of tokens between slashes.
RECURSIVE SplitPath(_, _)
SplitPath(p, cur) ==
    IF p = <<>> THEN (IF cur = <<>> THEN <<>> ELSE <<cur>>)
    ELSE IF Head(p) = "/"
         THEN (IF cur = <<>> THEN <<>> ELSE <<cur>>) \o SplitPath(Tail(p), <<>>)
         ELSE SplitPath(Tail(p), Append(cur, Head(p)))

\* The path string of a list of components, from the root.
RECURSIVE AbsString(_)
AbsString(comps) ==
    IF comps = <<>> THEN <<>> ELSE <<"/">> \o Head(comps) \o AbsString(Tail(comps))

\* normalizeRelPath: leading dots and slashes are cut, a backslash becomes
\* a slash.
RECURSIVE StripLead(_)
StripLead(p) ==
    IF p # <<>> /\ Head(p) \in {"/", ".", ".."} THEN StripLead(Tail(p)) ELSE p

normalizeRelPath(value) ==
    LET stripped == StripLead(value)
    IN [k \in 1..Len(stripped) |-> IF stripped[k] = "\\" THEN "/" ELSE stripped[k]]

\* isMemoryPath: MEMORY.md, memory.md, or a path that starts with memory/.
isMemoryPath(relPath) ==
    \/ relPath = <<"MEMORY.md">>
    \/ relPath = <<"memory.md">>
    \/ IsPrefix(<<"memory", "/">>, relPath)

\* path.resolve: the components walked from the working directory, or from
\* the root when the path is absolute; "." stays, ".." steps up.
RECURSIVE Walk(_, _)
Walk(at, comps) ==
    IF comps = <<>> THEN at
    ELSE IF Head(comps) = <<".">> THEN Walk(at, Tail(comps))
    ELSE IF Head(comps) = <<"..">>
         THEN Walk(IF at = <<>> THEN <<>> ELSE SubSeq(at, 1, Len(at) - 1), Tail(comps))
         ELSE Walk(Append(at, Head(comps)), Tail(comps))

Cwd == << <<"home">> >>

pathResolve(dir, rel) ==
    Walk(Walk(IF dir # <<>> /\ Head(dir) = "/" THEN <<>> ELSE Cwd, SplitPath(dir, <<>>)),
         SplitPath(rel, <<>>))

\* The directory tree: the workspace /home/w with its memory files and one
\* other file, a sibling directory /home/wx and a file next to both.
Secret == << <<LB>> >>

FileSystem ==
    (<< <<"home">>, <<"w">>, <<"MEMORY.md">> >> :> ContentTable[2])
    @@ (<< <<"home">>, <<"w">>, <<"memory">>, <<"a.md">> >> :> ContentTable[1])
    @@ (<< <<"home">>, <<"w">>, <<"src">>, <<"x.md">> >> :> Secret)
    @@ (<< <<"home">>, <<"w", "x">>, <<"s.md">> >> :> Secret)
    @@ (<< <<"home">>, <<"s.md">> >> :> Secret)

\* config.workspaceDir as the caller gave it: absolute, or relative to the
\* working directory.
WorkspaceDirs == {<<"/", "home", "/", "w">>, <<".", "/", "w">>}

RequestPaths ==
    {<<>>,
     <<"MEMORY.md">>,
     <<".", "/", "MEMORY.md">>,
     <<"memory", "/", "a.md">>,
     <<"memory", "\\", "a.md">>,
     <<"memory", "/", "missing.md">>,
     <<"src", "/", "x.md">>,
     <<"..", "/", "..", "/", "s.md">>,
     <<"memory", "/", "..", "/", "src", "/", "x.md">>,
     <<"memory", "/", "..", "/", "..", "/", "s.md">>,
     <<"memory", "/", "..", "/", "..", "/", "w", "x", "/", "s.md">>}

\* params.from and params.lines: absent, or a number.
OptFroms == {<<>>, <<0>>, <<1>>, <<2>>, <<5>>}
OptLines == {<<>>, <<0>>, <<1>>, <<2>>}

\* absPath.startsWith(this.config.workspaceDir)
InsideWorkspace(workspaceDir, absPath) ==
    IsPrefix(workspaceDir, AbsString(absPath))

\* lines.slice(start - 1, start - 1 + count)
SliceLines(lines, start, count) ==
    SubSeq(lines, start, Min(Len(lines), start - 1 + count))

\* readFile: how the call ends, what it returns and which file it read.
readFile(workspaceDir, path, from, lines) ==
    LET relPath == normalizeRelPath(path)
        absPath == pathResolve(workspaceDir, relPath)
        none == [outcome |-> "none", relPath |-> relPath, text |-> <<>>,
                 accessed |-> {}]
    IN IF relPath = <<>> \/ ~isMemoryPath(relPath)
       THEN [none EXCEPT !.outcome = "invalid"]
       ELSE IF ~InsideWorkspace(workspaceDir, absPath)
       THEN [none EXCEPT !.outcome = "escapes"]
       ELSE IF absPath \notin DOMAIN FileSystem
       THEN [none EXCEPT !.outcome = "enoent", !.accessed = {absPath}]
       ELSE LET content == FileSystem[absPath]
                noFrom == from = <<>> \/ from[1] = 0
                noLines == lines = <<>> \/ lines[1] = 0
                start == Max(1, IF from = <<>> THEN 1 ELSE from[1])
                count == Max(1, IF lines = <<>> THEN Len(content) ELSE lines[1])
            IN [none EXCEPT
                   !.outcome = "ok", !.accessed = {absPath},
                   !.text = IF noFrom /\ noLines THEN JoinLines(content)
                            ELSE JoinLines(SliceLines(content, start, count))]

InitReadFile ==
    /\ AtRest
    /\ db = EmptyDb
    /\ unit \in {[pc |-> "readFile", workspaceDir |-> w, path |-> p,
                  from |-> f, lines |-> n,
                  result |-> readFile(w, <<>>, <<>>, <<>>)] :
                    w \in WorkspaceDirs, p \in RequestPaths,
                    f \in OptFroms, n \in OptLines}

ReadFileCall ==
    /\ unit.pc = "readFile"
    /\ unit' = [unit EXCEPT
           !.pc = "returned",
           !.result = readFile(unit.workspaceDir, unit.path, unit.from, unit.lines)]
    /\ UNCHANGED <<srch, syncVars>>

NextReadFile == ReadFileCall

SpecReadFile == InitReadFile /\ [][NextReadFile]_vars

(***************************************************************************)
(* The life of one index: create, use, status, close.  The unit holds the  *)
(* configuration, what the two provider factories do, and the instance.    *)
(***************************************************************************)
MaxUses == 2
MaxCloses == 3

Requested == {"local", "openai", "auto"}

\* createLocalEmbeddingProvider: it returns, or throws with a message.
LocalOutcomes == {"ok", "node-llama-cpp missing", "model load failed"}

\* createOpenAIEmbeddingProvider: it returns, or throws with a message.
OpenAIOutcomes == {"ok", "openai module failed"}

NoResult ==
    [ok |-> FALSE, provider |-> <<>>, fallbackFrom |-> <<>>,
     fallbackReason |-> <<>>, tried |-> <<>>, error |-> <<>>]

\* createOpenAIProvider: the key is required.
createOpenAIProvider(key, openai) ==
    IF ~key THEN "OpenAI API key required"
    ELSE openai

\* Auto mode: local first, then OpenAI when a key is configured.
AutoProvider(key, local, openai) ==
    IF local = "ok"
    THEN [NoResult EXCEPT !.ok = TRUE, !.provider = <<"local">>, !.tried = <<"local">>]
    ELSE IF key
    THEN IF createOpenAIProvider(key, openai) = "ok"
         THEN [NoResult EXCEPT !.ok = TRUE, !.provider = <<"openai">>,
                               !.fallbackFrom = <<"local">>,
                               !.fallbackReason = <<local>>,
                               !.tried = <<"local", "openai">>]
         ELSE [NoResult EXCEPT !.tried = <<"local", "openai">>,
                               !.error = <<"Local embeddings failed", local,
                                           "OpenAI fallback failed", openai>>]
    ELSE [NoResult EXCEPT !.tried = <<"local">>,
                          !.error = <<"Local embeddings unavailable", local>>]

\* An explicit choice that falls back the way the auto mode does.
createEmbeddingProviderLenient(requested, key, local, openai) ==
    AutoProvider(key, local, openai)

createEmbeddingProvider(requested, key, local, openai) ==
    IF requested = "local"
    THEN IF local = "ok"
         THEN [NoResult EXCEPT !.ok = TRUE, !.provider = <<"local">>, !.tried = <<"local">>]
         ELSE [NoResult EXCEPT !.tried = <<"local">>, !.error = <<local>>]
    ELSE IF requested = "openai"
    THEN IF createOpenAIProvider(key, openai) = "ok"
         THEN [NoResult EXCEPT !.ok = TRUE, !.provider = <<"openai">>, !.tried = <<"openai">>]
         ELSE [NoResult EXCEPT !.tried = <<"openai">>,
                               !.error = <<createOpenAIProvider(key, openai)>>]
    ELSE AutoProvider(key, local, openai)

\* status(): the provider and the fallback it reports.
StatusOf(u) ==
    [provider |-> u.provider,
     fallback |-> IF u.fallbackReason # <<>> /\ u.fallbackReason # <<"">>
                  THEN <<[from |-> IF u.fallbackFrom = <<>> THEN "local"
                                   ELSE u.fallbackFrom[1],
                          reason |-> u.fallbackReason[1]]>>
                  ELSE <<>>]

InitLife ==
    /\ AtRest
    /\ db = EmptyDb
    /\ unit \in {[pc |-> "new", requested |-> r, key |-> k, local |-> l,
                  openai |-> o, provider |-> <<>>, fallbackFrom |-> <<>>,
                  fallbackReason |-> <<>>, tried |-> <<>>, error |-> <<>>,
                  closed |-> FALSE, dbCloses |-> 0, closeCalls |-> 0,
                  uses |-> 0, report |-> <<>>] :
                    r \in Requested, k \in BOOLEAN,
                    l \in LocalOutcomes, o \in OpenAIOutcomes}

\* MemoryIndex.create: the constructor, then init; a failure of the
\* provider leaves the caller without an instance.
LifeCreate ==
    /\ unit.pc = "new"
    /\ LET res == createEmbeddingProvider(unit.requested, unit.key,
                                          unit.local, unit.openai)
       IN unit' = [unit EXCEPT
              !.pc = IF res.ok THEN "ready" ELSE "failed",
              !.provider = res.provider,
              !.fallbackFrom = res.fallbackFrom,
              !.fallbackReason = res.fallbackReason,
              !.tried = res.tried,
              !.error = res.error]
    /\ UNCHANGED <<srch, syncVars>>

\* A sync or a search on the instance that create returned.
LifeUse ==
    /\ unit.pc = "ready"
    /\ ~unit.closed
    /\ unit.uses < MaxUses
    /\ unit' = [unit EXCEPT !.uses = @ + 1]
    /\ UNCHANGED <<srch, syncVars>>

LifeStatus ==
    /\ unit.pc = "ready"
    /\ ~unit.closed
    /\ unit' = [unit EXCEPT !.report = <<StatusOf(unit)>>]
    /\ UNCHANGED <<srch, syncVars>>

\* close() that closes the connection on every call.
CloseAlways(u) ==
    [u EXCEPT !.closed = TRUE, !.dbCloses = @ + 1, !.closeCalls = @ + 1]

\* close()
CloseOnce(u) ==
    IF u.closed THEN [u EXCEPT !.closeCalls = @ + 1]
    ELSE CloseAlways(u)

LifeClose ==
    /\ unit.pc = "ready"
    /\ unit.closeCalls < MaxCloses
    /\ unit' = CloseOnce(unit)
    /\ UNCHANGED <<srch, syncVars>>

NextLife == LifeCreate \/ LifeUse \/ LifeStatus \/ LifeClose

SpecLife == InitLife /\ [][NextLife]_vars

(***************************************************************************)
(* buildEmbeddingBatches on its own: chunks whose texts are short, half    *)
(* the batch budget, the budget, and above it.                             *)
(***************************************************************************)
MaxBatchChunks == 3

TextSizes ==
    {1, EMBEDDING_BATCH_MAX_TOKENS \div 2, EMBEDDING_BATCH_MAX_TOKENS \div 2 + 1,
     EMBEDDING_BATCH_MAX_TOKENS, EMBEDDING_BATCH_MAX_TOKENS + 1}

TextOfSize(n) == [k \in 1..n |-> LA]

\* The chunks of a file, numbered by their lines, with texts of the sizes.
ChunksOfSizes(sizes) ==
    [k \in 1..Len(sizes) |->
        [text |-> TextOfSize(sizes[k]), startLine |-> k, endLine |-> k,
         hash |-> hashText(<<sizes[k]>>)]]

InitBatch ==
    /\ AtRest
    /\ db = EmptyDb
    /\ unit \in {[pc |-> "batch", chunks |-> ChunksOfSizes(sizes), batches |-> <<>>] :
                    sizes \in SeqsUpTo(TextSizes, MaxBatchChunks)}

BatchCall ==
    /\ unit.pc = "batch"
    /\ unit' = [unit EXCEPT !.pc = "batched",
                            !.batches = buildEmbeddingBatches(unit.chunks)]
    /\ UNCHANGED <<srch, syncVars>>

NextBatch == BatchCall

SpecBatch == InitBatch /\ [][NextBatch]_vars

(***************************************************************************)
(* indexFile from the chunks on: the cache lookup, the batches sent to a   *)
(* provider that answers in order, the cache upsert, the rows written.     *)
(* Texts above half the batch budget go into batches of their own.         *)
(***************************************************************************)
MaxFileChunks == 3

LongA == [k \in 1..(EMBEDDING_BATCH_MAX_TOKENS \div 2 + 1) |-> LA]
LongB == [k \in 1..(EMBEDDING_BATCH_MAX_TOKENS \div 2 + 1) |-> LB]

EmbedTexts == {<<LB>>, LongA, LongB, <<LA>> \o LongB}

\* The chunks of a file with the given texts, one line each.
ChunksOfTexts(texts) ==
    [k \in 1..Len(texts) |->
        [text |-> texts[k], startLine |-> k, endLine |-> k,
         hash |-> hashText(texts[k])]]

\* The cache after earlier syncs that met some of the texts.
CacheOfTexts(c, texts) ==
    [key \in {CacheKey(c, hashText(t)) : t \in texts} |->
        JSONstringify(Emb(c.provider,
                          CHOOSE t \in texts : CacheKey(c, hashText(t)) = key))]

IndexedEntry == [path |-> "MEMORY.md", hash |-> hashText(<<>>)]

InitEmbed ==
    /\ AtRest
    /\ db \in {[EmptyDb EXCEPT !.cache = CacheOfTexts(BaseConfig, texts)] :
                  texts \in {{}, {<<LB>>, LongB}}}
    /\ unit \in {[pc |-> "index", chunks |-> ChunksOfTexts(texts),
                  cache0 |-> EmptyCache, batches |-> <<>>, sent |-> {}] :
                    texts \in SeqsUpTo(EmbedTexts, MaxFileChunks) \ {<<>>}}

\* indexFile for the chunks: embedChunksInBatches, then the write.
EmbedIndexCall ==
    /\ unit.pc = "index"
    /\ LET j == RunBatches(EmbedStart(db, cfg, IndexedEntry, unit.chunks),
                           cfg.provider)
       IN /\ db' = WriteFile(upsertEmbeddingCache(db, cfg, j.toCache, 1),
                             cfg, j, ftsAvailable, TRUE)
          /\ unit' = [unit EXCEPT !.pc = "indexed", !.cache0 = db.cache,
                                  !.batches = j.batches, !.sent = j.sent]
    /\ UNCHANGED <<srch, disk, cfg, ftsAvailable, syncPc, sy, job, last, hist,
                   since, nSyncs, nEdits, nReopens, nFaults>>

NextEmbed == EmbedIndexCall

SpecEmbed == InitEmbed /\ [][NextEmbed]_vars

(***************************************************************************)
(* The same call step by step, from the state in which indexFile has       *)
(* chunked a file and looked its chunks up: each batch is answered or      *)
(* rejected, then the rows are written.  The store holds nothing, or the   *)
(* rows of the file's earlier content.                                     *)
(***************************************************************************)
MaxStepChunks == 2

\* The store after the file was indexed with one short chunk.
EarlierDb ==
    LET j == RunBatches(EmbedStart(EmptyDb, BaseConfig, IndexedEntry,
                                   ChunksOfTexts(<< <<LA>> >>)),
                        BaseConfig.provider)
    IN WriteFile(upsertEmbeddingCache(EmptyDb, BaseConfig, j.toCache, 1),
                 BaseConfig, j, TRUE, TRUE)

InitEmbedSteps ==
    /\ disk = InitialDisk
    /\ cfg = BaseConfig
    /\ ftsAvailable = TRUE
    /\ db \in {EmptyDb, EarlierDb}
    /\ syncPc = "embed"
    /\ sy = [NoSync EXCEPT !.fileEntries = <<IndexedEntry>>,
                           !.activePaths = {IndexedEntry.path}]
    /\ job \in {EmbedStart(db, cfg, IndexedEntry, ChunksOfTexts(texts)) :
                   texts \in SeqsUpTo(EmbedTexts, MaxStepChunks) \ {<<>>}}
    /\ last = "none"
    /\ hist = [NoHist EXCEPT !.valid = TRUE, !.db0 = db,
                             !.indexed = {IndexedEntry.path}]
    /\ since = "dirty"
    /\ nSyncs = 1 /\ nEdits = 0 /\ nReopens = 0 /\ nFaults = 0
    /\ srch = NoSearch
    /\ unit = NoUnit

NextEmbedSteps ==
    \/ \E mode \in BatchModes : EmbedBatchOk(mode)
    \/ EmbedBatchFail
    \/ \E ok \in BOOLEAN : IndexFileWrite(ok)

SpecEmbedSteps == InitEmbedSteps /\ [][NextEmbedSteps]_vars

(***************************************************************************)
(* A search and a sync on one instance, interleaved at their awaits        *)
(***************************************************************************)
\* What the interleaved searches ask for.
InterleaveQueries == {<<LA>>, <<LB>>}
InterleaveMinScores == {<<>>, <<0>>}

\* An index built by a sync; then files are edited, syncs run, and searches
\* are called at any point, also while a sync waits for the provider.
InitInterleave ==
    /\ disk = InitialDisk
    /\ cfg = BaseConfig
    /\ ftsAvailable = TRUE
    /\ db = SyncedDb(BaseConfig, InitialDisk, TRUE)
    /\ syncPc = "idle"
    /\ sy = NoSync
    /\ job = NoJob
    /\ last = "ok"
    /\ hist = NoHist
    /\ since = "clean"
    /\ nSyncs = MaxSyncs - 1 /\ nEdits = 0 /\ nReopens = 0 /\ nFaults = 0
    /\ srch = NoSearch
    /\ unit = NoUnit

NextInterleave ==
    \/ \E p \in Paths, content \in Contents \cup {NoFile} : Edit(p, content)
    \/ SyncSteps(BOOLEAN)
    \/ \E query \in InterleaveQueries, optMinScore \in InterleaveMinScores :
          SearchCall(query, optMinScore, <<>>)
    \/ \E mode \in QueryModes : SearchEmbedded(mode)
    \/ SearchEmbedFail
    \/ SearchReturn

SpecInterleave == InitInterleave /\ [][NextInterleave]_vars

(***************************************************************************)
(* Two sync calls on one instance, interleaved at their awaits             *)
(***************************************************************************)
\* The call that is not running: its position and its locals.
OtherCall(pc, y, j, l, h, o) ==
    [pc |-> "other", syncPc |-> pc, sy |-> y, job |-> j, last |-> l, hist |-> h,
     overlapped |-> o]

StaleDisks ==
    {InitialDisk,
     [InitialDisk EXCEPT !["MEMORY.md"] = ContentTable[1]],
     [InitialDisk EXCEPT !["memory/a.md"] = NoFile]}

\* An empty index, or one built from the files as they were; the files on
\* disk and the configuration stay as they are.
InitTwoSyncs ==
    /\ disk \in StaleDisks
    /\ cfg = BaseConfig
    /\ ftsAvailable \in BOOLEAN
    /\ db \in {EmptyDb, SyncedDb(BaseConfig, InitialDisk, ftsAvailable)}
    /\ syncPc = "idle"
    /\ sy = NoSync
    /\ job = NoJob
    /\ last = "none"
    /\ hist = NoHist
    /\ since = "dirty"
    /\ nSyncs = MaxSyncs - 2 /\ nEdits = 0 /\ nReopens = 0 /\ nFaults = 0
    /\ srch = NoSearch
    /\ unit = OtherCall("idle", NoSync, NoJob, "none", NoHist, FALSE)

\* The event loop goes on with the other call: the running call waits at
\* an await (or has not been made, or has returned).
Switch ==
    /\ unit.pc = "other"
    /\ syncPc' = unit.syncPc
    /\ sy' = unit.sy
    /\ job' = unit.job
    /\ last' = unit.last
    /\ hist' = unit.hist
    /\ unit' = OtherCall(syncPc, sy, job, last, hist,
                         unit.overlapped \/ (syncPc # "idle" /\ unit.syncPc # "idle"))
    /\ UNCHANGED <<srch, disk, cfg, ftsAvailable, db, since, nSyncs, nEdits,
                   nReopens, nFaults>>

NextTwoSyncs == SyncSteps(BOOLEAN) \/ Switch

SpecTwoSyncs == InitTwoSyncs /\ [][NextTwoSyncs]_vars

(* Properties of sync                                                      *)
(***************************************************************************)
OnDisk == {p \in Paths : disk[p] # NoFile}

TrackedPaths(d) == {f.path : f \in d.files}

\* A chunk record without its id, model and vector.
Slice(c) == [path |-> c.path, startLine |-> c.startLine, endLine |-> c.endLine,
             text |-> c.text]

\* The slices indexFile stores for a path with the given lines.
SlicesOf(path, lines, c) ==
    LET kept == KeptChunks(lines, c)
    IN {[path |-> path, startLine |-> kept[k].startLine,
         endLine |-> kept[k].endLine, text |-> kept[k].text] : k \in 1..Len(kept)}

\* C1: sync resets the index (no file, chunk or full-text record is left when
\* the file loop starts) exactly when force is set, or there is no valid
\* stored metadata, or the stored metadata differs from the configuration in
\* one of its five fields; otherwise the store is as it was before the call.
C1_FullResetExactlyOnMismatch ==
    (hist.valid /\ syncPc = "scan") =>
        LET metas == readMeta(hist.db0)
            mismatch == \/ hist.force
                        \/ metas = {}
                        \/ \E m \in metas : m # MetaOf(hist.cfg0)
        IN IF mismatch
           THEN db.files = {} /\ db.chunks = {} /\ db.fts = EmptyBag
           ELSE db = hist.db0

\* C2: whenever the stored metadata equals the configuration, every chunk
\* record carries the configuration's model and is a slice the current
\* chunkTokens and chunkOverlap produce.
C2_MatchingMetaMeansCurrentChunks ==
    readMeta(db) = {MetaOf(cfg)} =>
        \A c \in db.chunks :
            /\ c.model = cfg.provider.model
            /\ \E content \in Contents : Slice(c) \in SlicesOf(c.path, content, cfg)

\* C3: a sync call in which a provider error or a storage error occurred
\* while a file was indexed has failed and left the stored metadata as it
\* was; and while a call is under way the metadata is still what it was.
C3_ErrorAbortsSyncMetaLast ==
    /\ (hist.valid /\ syncPc = "idle"
        /\ hist.errors \cap {"provider", "storage", "indexFts"} # {})
          => (last = "err" /\ db.meta = hist.db0.meta)
    /\ (hist.valid /\ syncPc # "idle") => db.meta = hist.db0.meta

\* C4: in a sync that is no full reindex, a file whose stored hash is its
\* content's hash is skipped: indexFile is not entered for it, no provider
\* call is made for it, its file, chunk and full-text records stay as they
\* were.  A sync that follows a successful one with nothing changed makes no
\* provider call, does not fail and leaves the store as it was.
RowsOf(d, p) ==
    [files |-> {f \in d.files : f.path = p},
     chunks |-> {c \in d.chunks : c.path = p},
     fts |-> BagWithout(d.fts, {r \in DOMAIN d.fts : r.path # p})]

C4_UnchangedFileSkipped ==
    /\ (hist.valid /\ syncPc # "idle" /\ ~sy.needsFullReindex) =>
          \A k \in 1..Len(sy.fileEntries) :
              LET e == sy.fileEntries[k]
              IN (k < sy.i /\ \E f \in hist.db0.files :
                                  f.path = e.path /\ f.hash = e.hash)
                 => /\ e.path \in hist.skipped
                    /\ e.path \notin hist.indexed
                    /\ e.path \notin hist.calls
                    /\ RowsOf(db, e.path) = RowsOf(hist.db0, e.path)
    /\ (hist.valid /\ hist.since0 = "clean" /\ ~hist.force) =>
          /\ hist.calls = {}
          /\ last # "err"
          /\ db = hist.db0

\* C4's case: a sync that is no full reindex has skipped one file and called
\* the provider for another.
C4_Witness ==
    /\ syncPc = "meta" /\ ~sy.needsFullReindex
    /\ hist.skipped # {} /\ hist.calls # {}

\* C5: after a successful sync the tracked paths are the files on disk, no
\* chunk or full-text record is left for a path that is not on disk, and a
\* sync after the deletion of one tracked file tracks one file less.
C5_StaleRecordsRemoved ==
    (hist.valid /\ syncPc = "idle" /\ last = "ok") =>
        /\ TrackedPaths(db) = OnDisk
        /\ \A c \in db.chunks : c.path \in OnDisk
        /\ \A r \in DOMAIN db.fts : r.path \in OnDisk
        /\ hist.since0 = "del1" =>
              Cardinality(db.files) = Cardinality(hist.db0.files) - 1

\* C6: after a successful sync the chunk records of every tracked path are
\* the slices of its current content that have text left after trimming, and
\* no chunk record has empty or whitespace-only text.
C6_ChunksAreCurrentContent ==
    (hist.valid /\ syncPc = "idle" /\ last = "ok") =>
        /\ \A p \in TrackedPaths(db) :
              {Slice(c) : c \in {x \in db.chunks : x.path = p}}
                  = SlicesOf(p, disk[p], cfg)
        /\ \A c \in db.chunks : \E k \in 1..Len(c.text) : ~IsBlank(c.text[k])

\* C7: a chunk whose hash has a nonzero-length vector in the cache under the
\* current provider id, model and provider key is not sent to the provider
\* and is stored with that vector; a chunk that was not sent has the vector
\* cached under the current key, never one cached under another.
CachedVector(cache, c, hash) ==
    LET key == [provider |-> c.provider.id, model |-> c.provider.model,
                providerKey |-> c.providerKey, hash |-> hash]
    IN IF key \in DOMAIN cache /\ cache[key].parses /\ cache[key].arr # <<>>
       THEN {cache[key].arr} ELSE {}

C7_ProviderOnlyForCacheMisses ==
    job.phase \in {"embed", "write", "written"} =>
        \A k \in 1..Len(job.chunks) :
            LET hit == CachedVector(job.cache0, cfg, job.chunks[k].hash)
            IN /\ hit # {} => (k \notin job.sent /\ job.embeddings[k] \in hit)
               /\ (job.phase # "embed" /\ k \notin job.sent) => job.embeddings[k] \in hit
               /\ (job.phase = "written" /\ hit # {}) =>
                     \E row \in db.chunks :
                         /\ row.id = chunkId(job.path, job.chunks[k], cfg.provider.model)
                         /\ {parseEmbedding(row.embedding)} = hit

\* C7's case: a file was written with a chunk taken from the cache while the
\* cache also held a vector for the same hash under another provider.
C7_Witness ==
    /\ job.phase = "written"
    /\ \E k \in 1..Len(job.chunks) :
          /\ k \notin job.sent
          /\ CachedVector(job.cache0, cfg, job.chunks[k].hash) # {}
          /\ \E key \in DOMAIN job.cache0 :
                key.hash = job.chunks[k].hash /\ key.provider # cfg.provider.id

\* C8: a forced sync that follows a successful sync with nothing changed in
\* between ends with the tracked files and the chunk records (id, line range,
\* text) the first sync left.
ChunkIdentity(d) ==
    {[id |-> c.id, path |-> c.path, startLine |-> c.startLine,
      endLine |-> c.endLine, text |-> c.text] : c \in d.chunks}

C8_ForcedSyncSameIndex ==
    (hist.valid /\ syncPc = "idle" /\ last = "ok"
     /\ hist.force /\ hist.since0 = "clean") =>
        /\ db.files = hist.db0.files
        /\ ChunkIdentity(db) = ChunkIdentity(hist.db0)

(***************************************************************************)
(* Properties of search                                                    *)
(***************************************************************************)
BlankQuery(q) == \A k \in 1..Len(q) : q[k] \in {SP, NL}

\* C9: search with an empty or whitespace-only query ends with an empty
\* result list and no error, without a call of the embedding provider and
\* without a run of the keyword search, the vector search or the merger.
C9_BlankQueryReturnsEmpty ==
    (srch.pc # "idle" /\ BlankQuery(srch.query)) =>
        /\ srch.pc = "done"
        /\ srch.results = <<>>
        /\ srch.embedCalls = 0
        /\ srch.scorers = {}

\* C9's case: a whitespace-only query answered on an index that holds chunks
\* of the open model.
C9_Witness ==
    /\ srch.pc = "done"
    /\ srch.query # <<>> /\ BlankQuery(srch.query)
    /\ \E c \in db.chunks : c.model = cfg.provider.model

\* C10: every result search returns has a score of at least minScore, the
\* call's option or else the configured default, whether the results come
\* from the merger, from the vector search alone or from the keyword search
\* alone.
C10_ResultsMeetMinScore ==
    srch.pc = "done" =>
        LET bound == IF srch.optMinScore = <<>> THEN DefaultMinScore
                     ELSE srch.optMinScore[1]
        IN \A k \in 1..Len(srch.results) : srch.results[k].score >= bound

\* C10's case: the query vector was all zero, the keyword search found rows,
\* one of them scored below minScore and was dropped, another was returned.
C10_Witness ==
    /\ srch.pc = "done"
    /\ srch.route = "hybrid" /\ ~srch.hasVector
    /\ srch.results # <<>>
    /\ \E k \in 1..Len(srch.ranked) : srch.ranked[k].score < srch.minScore


\* The maxResults a call asked for: its option, or else the default.
AskedMaxResults ==
    IF srch.optMaxResults = <<>> THEN DefaultMaxResults ELSE srch.optMaxResults[1]

\* C11: search never returns more than maxResults results, whatever
\* maxResults the caller passes: the length of the result is at most
\* max(0, maxResults), so it is empty for maxResults = 0 and for a negative
\* maxResults.
C11_AtMostMaxResults ==
    srch.pc = "done" => Len(srch.results) <= Max(0, AskedMaxResults)

\* C12: when every component of the embedded query vector is zero, search
\* runs neither the vector search nor the merger and returns the keyword
\* results with their own keyword scores, not scaled by textWeight, filtered
\* by minScore and cut to maxResults.
C12_ZeroVectorKeywordOnly ==
    (srch.pc = "done" /\ srch.cleaned # <<>> /\ ~srch.hasVector) =>
        /\ "vector" \notin srch.scorers
        /\ "merge" \notin srch.scorers
        /\ srch.results =
              ToResults(FilterByMinScore(srch.keywordResults, srch.minScore),
                        srch.maxResults)


\* The statements sync runs on the full-text table, as the errors of a call
\* name them.
FtsStatements == {"resetFts", "indexFts", "staleFts"}

\* C13: with the full-text index unavailable neither sync nor search fails
\* because of it: sync runs no statement on the full-text table and writes
\* no full-text row, and search returns the results of the vector search
\* with their cosine scores as they are, filtered by minScore and cut to
\* maxResults, without a run of the keyword search or of the merger; search
\* fails only when the embedding provider does.
C13_NoFullTextIndex ==
    ~ftsAvailable =>
        /\ db.fts = EmptyBag
        /\ hist.errors \cap FtsStatements = {}
        /\ srch.pc = "failed" => srch.embedCalls = 1
        /\ (srch.pc = "done" /\ srch.cleaned # <<>>) =>
              /\ srch.scorers \subseteq {"vector"}
              /\ srch.results =
                    ToResults(
                        FilterByMinScore(
                            searchVector(db, cfg.provider.model, srch.queryVec,
                                         srch.candidates),
                            srch.minScore),
                        srch.maxResults)

\* C13's case: no full-text index, sync has stored chunks of the open model,
\* the query has a word that a stored chunk holds, and search returns a
\* result whose score is its cosine score.
C13_Witness ==
    /\ ~ftsAvailable
    /\ srch.pc = "done"
    /\ \E c \in db.chunks :
          /\ c.model = cfg.provider.model
          /\ Matches(c.text, buildFtsQuery(srch.cleaned))
    /\ srch.results # <<>>
    /\ \E k \in 1..Len(srch.vectorResults) :
          /\ srch.vectorResults[k].score = srch.results[1].score
          /\ srch.vectorResults[k].score < 10000


\* C27: every score in a list that search returns lies between 0 and 1,
\* whatever the index holds and whatever the query vector, the weights and
\* minScore are.
C27_ScoresInUnitRange ==
    srch.pc = "done" =>
        \A k \in 1..Len(srch.results) :
            /\ srch.results[k].score >= 0
            /\ srch.results[k].score <= 10000

(***************************************************************************)
(* Properties of the merger                                                *)
(***************************************************************************)
\* The score a list gives an id: 0 when the list does not hold the id.
VectorScoreOf(id) ==
    IF \E k \in 1..Len(unit.vector) : unit.vector[k].id = id
    THEN unit.vector[CHOOSE k \in 1..Len(unit.vector) : unit.vector[k].id = id].score
    ELSE 0

TextScoreOf(id) ==
    IF \E k \in 1..Len(unit.keyword) : unit.keyword[k].id = id
    THEN unit.keyword[CHOOSE k \in 1..Len(unit.keyword) :
                          unit.keyword[k].id = id].textScore
    ELSE 0

IdsOf(list) == {list[k].id : k \in 1..Len(list)}

\* C14: every entry of the merger's output has the score
\* vectorWeight * vectorScore + textWeight * textScore, where the score of a
\* list the id is absent from counts 0 and the weights are used as given: a
\* vector-only entry scores vectorWeight * vectorScore, a keyword-only entry
\* textWeight * textScore.
C14_CombinedScore ==
    unit.pc = "merged" =>
        \A k \in 1..Len(unit.merged) :
            LET e == unit.merged[k]
            IN /\ 10 * e.score = unit.vectorWeight * VectorScoreOf(e.id)
                                   + unit.textWeight * TextScoreOf(e.id)
               /\ e.id \notin IdsOf(unit.keyword) =>
                     10 * e.score = unit.vectorWeight * VectorScoreOf(e.id)
               /\ e.id \notin IdsOf(unit.vector) =>
                     10 * e.score = unit.textWeight * TextScoreOf(e.id)

\* C14's case: one merge whose output has an entry found by both lists, an
\* entry found by the vector list alone and one found by the keyword list
\* alone, under weights that differ.
C14_Witness ==
    /\ unit.pc = "merged"
    /\ unit.vectorWeight # unit.textWeight
    /\ IdsOf(unit.vector) \cap IdsOf(unit.keyword) # {}
    /\ IdsOf(unit.vector) \ IdsOf(unit.keyword) # {}
    /\ IdsOf(unit.keyword) \ IdsOf(unit.vector) # {}
    /\ Len(unit.merged) = 3


\* C15: the merger's output has exactly one entry for each id that occurs
\* in the vector list or in the keyword list and nothing else: its length is
\* the size of the union of the two id sets; the merger drops no candidate
\* for its score or for a limit.
C15_UnionById ==
    unit.pc = "merged" =>
        /\ IdsOf(unit.merged) = IdsOf(unit.vector) \cup IdsOf(unit.keyword)
        /\ Len(unit.merged) = Cardinality(IdsOf(unit.vector) \cup IdsOf(unit.keyword))
        /\ DistinctIds(unit.merged)

\* C15's case: two lists of two entries that share an id, merged into three
\* entries of which one has a score of zero or less.
C15_Witness ==
    /\ unit.pc = "merged"
    /\ Len(unit.vector) = 2 /\ Len(unit.keyword) = 2
    /\ Cardinality(IdsOf(unit.vector) \cap IdsOf(unit.keyword)) = 1
    /\ Len(unit.merged) < Len(unit.vector) + Len(unit.keyword)
    /\ \E k \in 1..Len(unit.merged) : unit.merged[k].score <= 0

\* The snippet a list has for an id.
SnippetIn(list, id) == list[CHOOSE k \in 1..Len(list) : list[k].id = id].snippet

\* C16: a merged entry whose id is in both lists carries the snippet of the
\* keyword list; an entry whose id is in one list only carries the snippet
\* of that list.
C16_KeywordSnippetWins ==
    unit.pc = "merged" =>
        \A k \in 1..Len(unit.merged) :
            LET e == unit.merged[k]
            IN IF e.id \in IdsOf(unit.keyword)
               THEN e.snippet = SnippetIn(unit.keyword, e.id)
               ELSE e.snippet = SnippetIn(unit.vector, e.id)

\* C16's case: an id in both lists with two different snippets, next to an
\* entry of the vector list alone.
C16_Witness ==
    /\ unit.pc = "merged"
    /\ \E id \in IdsOf(unit.vector) \cap IdsOf(unit.keyword) :
          /\ SnippetIn(unit.vector, id) # SnippetIn(unit.keyword, id)
          /\ \E k \in 1..Len(unit.merged) :
                /\ unit.merged[k].id = id
                /\ unit.merged[k].snippet = SnippetIn(unit.keyword, id)
    /\ IdsOf(unit.vector) \ IdsOf(unit.keyword) # {}

\* No entry has a higher score than an entry before it.
Descending(list) ==
    \A i, j \in 1..Len(list) : i < j => list[i].score >= list[j].score


\* C17: the merger's output is ordered by descending score, and so is every
\* list search ranks or returns: no entry has a higher score than an entry
\* that precedes it.
C17_DescendingScore ==
    /\ unit.pc = "merged" => Descending(unit.merged)
    /\ srch.pc = "done" => Descending(srch.ranked) /\ Descending(srch.results)

\* C17's case: a merge of entries with different scores whose best entry is
\* not the first id the merger met.
C17_Witness ==
    /\ unit.pc = "merged"
    /\ Len(unit.merged) >= 2
    /\ unit.merged[1].score > unit.merged[Len(unit.merged)].score
    /\ unit.merged[1].id # MergedIds(unit.vector, unit.keyword)[1]


(***************************************************************************)
(* Properties of the vector search                                         *)
(***************************************************************************)
\* A vector without magnitude: no component, or zeros only.
ZeroMagnitude(v) == \A k \in 1..Len(v) : v[k] = 0

\* C18: a chunk of the open model whose stored vector has zero magnitude,
\* the empty vector included, is not in the ranked output of the vector
\* search, with whatever score.
C18_ZeroMagnitudeExcluded ==
    unit.pc = "scored" =>
        \A c \in db.chunks :
            (c.model = cfg.provider.model
             /\ ZeroMagnitude(parseEmbedding(c.embedding)))
                => c.id \notin IdsOf(unit.ranked)


\* The candidates searchVector scores: the rows of the open model in the
\* order listChunks reads them, each with its similarity to the query.
Scored ==
    LET candidates == listChunks(db, cfg.provider.model)
    IN SelectSeq([k \in 1..Len(candidates) |->
                     [id |-> candidates[k].id, at |-> k,
                      sim |-> cosineSimilarity(unit.queryVec,
                                               candidates[k].embedding)]],
                 LAMBDA e : e.sim.finite)

ScoredAt(id) == Scored[CHOOSE k \in 1..Len(Scored) : Scored[k].id = id]

\* C19: the vector search returns the top `limit` candidates of the open
\* model by cosine score: each with its cosine score, in descending order,
\* candidates of one score in their candidate order, cut after the sort, so
\* that no candidate left out has a higher score than one returned; an empty
\* query vector or a limit of zero or less gives an empty list.
C19_TopLimitStable ==
    unit.pc = "scored" =>
        /\ (unit.queryVec = <<>> \/ unit.limit <= 0) => unit.ranked = <<>>
        /\ (unit.queryVec # <<>> /\ unit.limit > 0) =>
              /\ Len(unit.ranked) = Min(unit.limit, Len(Scored))
              /\ DistinctIds(unit.ranked)
              /\ IdsOf(unit.ranked) \subseteq IdsOf(Scored)
              /\ \A k \in 1..Len(unit.ranked) :
                    unit.ranked[k].score = ScoredAt(unit.ranked[k].id).sim.v
              /\ Descending(unit.ranked)
              /\ \A i, j \in 1..Len(unit.ranked) :
                    (i < j /\ unit.ranked[i].score = unit.ranked[j].score) =>
                        ScoredAt(unit.ranked[i].id).at < ScoredAt(unit.ranked[j].id).at
              /\ \A k \in 1..Len(Scored) :
                    Scored[k].id \notin IdsOf(unit.ranked) =>
                        \A i \in 1..Len(unit.ranked) :
                            /\ Scored[k].sim.v <= unit.ranked[i].score
                            /\ Scored[k].sim.v = unit.ranked[i].score =>
                                  ScoredAt(unit.ranked[i].id).at < Scored[k].at

\* C19's case: three candidates of the open model, the best of them read
\* last, two of one score, a limit of two: one of the two equal candidates
\* is returned and the other left out.
C19_Witness ==
    /\ unit.pc = "scored"
    /\ unit.limit = 2
    /\ Len(Scored) = 3
    /\ Len(unit.ranked) = 2
    /\ unit.ranked[1].id = Scored[3].id
    /\ Scored[1].sim.v = Scored[2].sim.v
    /\ Scored[3].sim.v > Scored[1].sim.v
    /\ unit.ranked[2].id = Scored[1].id


(***************************************************************************)
(* Properties of the keyword score                                         *)
(***************************************************************************)
\* C20: the rank-to-score transform is monotonic and clamped: a rank of zero
\* or less maps to exactly 1, rank 1 maps to 0.5, of two ranks
\* 0 <= r1 < r2 the first has the strictly greater score, and every score
\* lies in (0, 1].
C20_RankToScore ==
    unit.pc = "scored" =>
        /\ unit.rank1 <= 0 => unit.score1 = 10000
        /\ unit.rank1 = 1 => unit.score1 = 5000
        /\ (0 <= unit.rank1 /\ unit.rank1 < unit.rank2) => unit.score1 > unit.score2
        /\ unit.score1 > 0 /\ unit.score1 <= 10000
        /\ unit.score2 > 0 /\ unit.score2 <= 10000

\* C20's case: rank 1 and the largest rank, scored 0.5 and less, next to no
\* better score for a rank below zero.
C20_Witness ==
    /\ unit.pc = "scored"
    /\ unit.rank1 = 1 /\ unit.rank2 = MaxRank
    /\ unit.score1 = 5000 /\ unit.score2 < 5000 /\ unit.score2 > 0
    /\ bm25RankToScore(0 - MaxRank) = bm25RankToScore(0)


(***************************************************************************)
(* Properties of the chunker                                               *)
(***************************************************************************)
\* The character budget of the call.
Budget == unit.tokens * CHUNK_CHARS_PER_TOKEN

\* The rows chunks are made of: each line, or the slices of a line longer
\* than the budget, with the number of the line.
Rows == LineItems(unit.lines, 1, Budget)

\* The rows of one line, put together again.
RECURSIVE Glue(_)
Glue(rows) == IF rows = <<>> THEN <<>> ELSE Head(rows).line \o Glue(Tail(rows))

\* Chunks k.. are windows of rows in input order that leave no row out:
\* each window starts no later than the row after the window before it,
\* ends after it, and the last one ends with the last row.
RECURSIVE WindowsCover(_, _, _)
WindowsCover(k, from, next) ==
    IF k > Len(unit.chunks) THEN next = Len(Rows) + 1
    ELSE \E a \in from..next, b \in next..Len(Rows) :
            /\ unit.chunks[k].text = JoinLines([i \in 1..(b - a + 1) |-> Rows[a + i - 1].line])
            /\ unit.chunks[k].startLine = Rows[a].lineNo
            /\ unit.chunks[k].endLine = Rows[b].lineNo
            /\ WindowsCover(k + 1, a, b + 1)

\* C21: the chunker's output covers the whole input: every line, and every
\* character of a line longer than the budget, is in a chunk; the chunks
\* come in input order; startLine and endLine are the 1-based inclusive
\* numbers of the lines of the text, the first chunk starting at line 1.
C21_ChunksCoverInput ==
    unit.pc = "chunked" =>
        /\ \A i \in 1..Len(unit.lines) :
              /\ \E r \in 1..Len(Rows) : Rows[r].lineNo = i
              /\ Glue(SelectSeq(Rows, LAMBDA row : row.lineNo = i)) = unit.lines[i]
        /\ unit.chunks # <<>>
        /\ unit.chunks[1].startLine = 1
        /\ unit.chunks[Len(unit.chunks)].endLine = Len(unit.lines)
        /\ \A k \in 1..Len(unit.chunks) :
              /\ 1 <= unit.chunks[k].startLine
              /\ unit.chunks[k].startLine <= unit.chunks[k].endLine
              /\ unit.chunks[k].endLine <= Len(unit.lines)
        /\ WindowsCover(1, 1, 1)

\* C21's case: a text of three lines, one of them longer than the budget,
\* chunked with an overlap into more than two chunks.
C21_Witness ==
    /\ unit.pc = "chunked"
    /\ Len(unit.lines) = 3
    /\ unit.overlap > 0
    /\ \E i \in 1..3 : Len(unit.lines[i]) > Budget
    /\ Len(unit.chunks) > 2
    /\ unit.chunks[Len(unit.chunks)].startLine > 1

\* C22: no chunk has more characters than the character budget, tokens
\* times the characters per token, whatever the input and the chunking with
\* overlap < tokens, an overlap above zero included.
C22_ChunkWithinBudget ==
    unit.pc = "chunked" =>
        \A k \in 1..Len(unit.chunks) : Len(unit.chunks[k].text) <= Budget


(***************************************************************************)
(* Properties of readFile                                                  *)
(***************************************************************************)
\* The workspace root as a list of components.
RootOf(workspaceDir) == pathResolve(workspaceDir, <<>>)

\* Where the requested path leads, taken as it is from the workspace root.
TargetOf(workspaceDir, path) == pathResolve(workspaceDir, normalizeRelPath(path))

\* C23: readFile rejects, before it touches the file system, every path
\* that does not match the memory-file naming convention or that resolves
\* to a place outside the workspace root, a sibling directory whose name
\* starts with the name of the workspace directory included; no file
\* outside the workspace root is ever read.
C23_ReadStaysInWorkspace ==
    unit.pc = "returned" =>
        /\ (\/ ~isMemoryPath(normalizeRelPath(unit.path))
            \/ ~IsPrefix(RootOf(unit.workspaceDir),
                         TargetOf(unit.workspaceDir, unit.path)))
              => /\ unit.result.outcome \in {"invalid", "escapes"}
                 /\ unit.result.accessed = {}
        /\ \A f \in unit.result.accessed : IsPrefix(RootOf(unit.workspaceDir), f)


\* A request for a memory file that exists inside the workspace root.
ValidMemoryPath(workspaceDir, path) ==
    /\ isMemoryPath(normalizeRelPath(path))
    /\ IsPrefix(RootOf(workspaceDir), TargetOf(workspaceDir, path))
    /\ TargetOf(workspaceDir, path) \in DOMAIN FileSystem

\* Lines f .. f+n-1 of a file, counted from 1 and cut off at its end.
LinesFrom(content, f, n) ==
    [i \in 1..Max(0, Min(Len(content), f + n - 1) - f + 1) |-> content[f - 1 + i]]

\* C24: for a valid memory path, readFile with from = f and lines = n
\* returns exactly the lines f .. f+n-1 of the file (counted from 1, cut
\* off at the end of the file), and with neither given the whole file.
C24_ReadFileLineRange ==
    (unit.pc = "returned" /\ ValidMemoryPath(unit.workspaceDir, unit.path)) =>
        LET content == FileSystem[TargetOf(unit.workspaceDir, unit.path)]
        IN /\ (unit.from = <<>> /\ unit.lines = <<>>)
                => /\ unit.result.outcome = "ok"
                   /\ unit.result.text = JoinLines(content)
           /\ (/\ unit.from # <<>> /\ unit.lines # <<>>
               /\ unit.from[1] >= 1 /\ unit.lines[1] >= 1)
                => /\ unit.result.outcome = "ok"
                   /\ unit.result.text =
                        JoinLines(LinesFrom(content, unit.from[1], unit.lines[1]))


(***************************************************************************)
(* Properties of the life of an index                                      *)
(***************************************************************************)
\* C25: over the life of one index the connection to the store is closed
\* exactly once: the first close() closes it, every later close() does
\* nothing.
C25_ClosedExactlyOnce ==
    unit.pc \in {"new", "ready", "failed"} =>
        /\ unit.dbCloses <= 1
        /\ unit.closeCalls >= 1 => unit.dbCloses = 1
        /\ unit.closed <=> unit.dbCloses = 1

C25_Witness ==
    /\ unit.pc = "ready"
    /\ unit.closeCalls >= 2
    /\ unit.dbCloses = 1

\* The provider that an explicit choice names fails to be created.
ExplicitFails(u) ==
    \/ u.requested = "local" /\ u.local # "ok"
    \/ u.requested = "openai" /\ (~u.key \/ u.openai # "ok")

\* The one case of a fallback: auto mode, local creation failed, a key is
\* configured and the OpenAI provider was created.
FellBack(u) ==
    /\ u.requested = "auto"
    /\ u.local # "ok"
    /\ u.key
    /\ u.openai = "ok"

\* C26: an explicit choice of provider is never replaced by a fallback and
\* its failure (a missing OpenAI key included) makes create() fail before
\* any sync or search; in auto mode the local provider is tried first and
\* the OpenAI provider only if that failed and a key is configured, and
\* exactly then the fallback from "local" and its reason are recorded and
\* reported by status().
C26_ProviderSelection ==
    unit.pc \in {"ready", "failed"} =>
        /\ unit.requested \in {"local", "openai"} =>
              /\ unit.tried = <<unit.requested>>
              /\ unit.fallbackFrom = <<>>
              /\ unit.pc = "ready" => unit.provider = <<unit.requested>>
              /\ ExplicitFails(unit) =>
                    unit.pc = "failed" /\ unit.uses = 0 /\ unit.error # <<>>
        /\ unit.requested = "auto" =>
              /\ unit.tried[1] = "local"
              /\ (Len(unit.tried) = 2 /\ unit.tried[2] = "openai")
                    <=> (unit.local # "ok" /\ unit.key)
              /\ Len(unit.tried) <= 2
        /\ IF FellBack(unit)
           THEN /\ unit.pc = "ready"
                /\ unit.provider = <<"openai">>
                /\ unit.fallbackFrom = <<"local">>
                /\ unit.fallbackReason = <<unit.local>>
                /\ unit.report # <<>> =>
                      unit.report[1].fallback =
                          <<[from |-> "local", reason |-> unit.local]>>
           ELSE /\ unit.fallbackFrom = <<>>
                /\ unit.fallbackReason = <<>>
                /\ unit.report # <<>> => unit.report[1].fallback = <<>>

C26_Witness ==
    /\ unit.pc = "ready"
    /\ FellBack(unit)
    /\ unit.uses > 0
    /\ unit.report # <<>>
    /\ unit.report[1].provider = <<"openai">>


(***************************************************************************)
(* Properties of sync on corrupt records                                   *)
(***************************************************************************)
\* The sync under way, or the last one, started on a corrupt metadata row.
CorruptStart ==
    /\ hist.valid
    /\ hist.db0.meta # <<>>
    /\ hist.db0.meta[1] \in CorruptMetas

\* C29: a stored metadata record that is corrupt (unparseable, or without
\* the expected fields) never makes sync fail: it counts as no metadata, so
\* sync does a full reindex and then stores valid metadata.
C29_CorruptMetaMeansFullReindex ==
    CorruptStart =>
        /\ syncPc # "idle" => sy.needsFullReindex
        /\ syncPc = "scan" => db.files = {} /\ db.chunks = {}
        /\ (syncPc = "idle" /\ last = "err") => hist.errors # {}
        /\ (syncPc = "idle" /\ last = "ok") =>
              /\ readMeta(db) = {MetaOf(cfg)}
              /\ hist.indexed = {p \in Paths : disk[p] # NoFile}

\* C29's case: the row held the configuration's metadata with one field
\* missing, over an index that was up to date; the sync has rebuilt it.
C29_Witness ==
    /\ CorruptStart
    /\ hist.db0.meta[1].parses
    /\ hist.db0.meta[1].obj.model = cfg.provider.model
    /\ hist.db0.chunks # {}
    /\ syncPc = "idle" /\ last = "ok"
    /\ db.chunks # {}

\* The cache holds, under the key of the open configuration, an entry for
\* the hash that is no vector: unparseable, or of length zero.
BadEntry(cache, c, hash) ==
    /\ CacheKey(c, hash) \in DOMAIN cache
    /\ parseEmbedding(cache[CacheKey(c, hash)]) = <<>>

\* C30: a cache entry whose stored vector is corrupt or has length zero
\* counts as a miss and never as an error: the chunk is sent to the
\* provider and the entry then holds the vector the provider answered; when
\* the sync has succeeded the entry is the vector stored with a chunk of
\* that hash which this sync indexed.
C30_BadCacheEntryIsMiss ==
    /\ job.phase \in {"embed", "write", "written"} =>
          \A k \in 1..Len(job.chunks) :
              BadEntry(job.cache0, cfg, job.chunks[k].hash) =>
                  /\ \E i \in 1..Len(job.missing) : job.missing[i] = k
                  /\ job.phase # "embed" =>
                        /\ k \in job.sent
                        /\ db.cache[CacheKey(cfg, job.chunks[k].hash)]
                              = JSONstringify(job.got[k])
    /\ (hist.valid /\ syncPc = "idle" /\ last = "err") => hist.errors # {}
    /\ (hist.valid /\ syncPc = "idle" /\ last = "ok") =>
          \A row \in db.chunks :
              (/\ row.path \in hist.indexed
               /\ row.model = cfg.provider.model
               /\ BadEntry(hist.db0.cache, cfg, row.hash))
                  => \E other \in db.chunks :
                        /\ other.hash = row.hash
                        /\ other.path \in hist.indexed
                        /\ db.cache[CacheKey(cfg, row.hash)] = other.embedding

\* C30's case: a sync has succeeded that began with an unparseable entry
\* for a chunk's hash, and the entry now holds a vector.
C30_Witness ==
    /\ hist.valid /\ syncPc = "idle" /\ last = "ok"
    /\ \E row \in db.chunks :
          /\ row.path \in hist.indexed
          /\ BadEntry(hist.db0.cache, cfg, row.hash)
          /\ ~hist.db0.cache[CacheKey(cfg, row.hash)].parses
          /\ parseEmbedding(db.cache[CacheKey(cfg, row.hash)]) # <<>>

(***************************************************************************)
(* Properties of the token estimates                                       *)
(***************************************************************************)
\* The tokens of a text by the measure that sizes the chunks.
ChunkTokensOf(text) ==
    (Len(text) + CHUNK_CHARS_PER_TOKEN - 1) \div CHUNK_CHARS_PER_TOKEN

\* C28: the characters-per-token constant that sizes the chunks is the one
\* that estimates tokens when the embedding batches are built: every chunk
\* put into a batch is estimated at the tokens the chunker counts for it.
C28_SameCharsPerToken ==
    \A b \in 1..Len(job.batches) :
        \A k \in 1..Len(job.batches[b]) :
            estimateEmbeddingTokens(job.batches[b][k].text)
                = ChunkTokensOf(job.batches[b][k].text)


(***************************************************************************)
(* Properties of the batching and of the embeddings stored                 *)
(***************************************************************************)
RECURSIVE Concat(_)
Concat(seqs) == IF seqs = <<>> THEN <<>> ELSE Head(seqs) \o Concat(Tail(seqs))

RECURSIVE TokensOf(_)
TokensOf(batch) ==
    IF batch = <<>> THEN 0
    ELSE estimateEmbeddingTokens(Head(batch).text) + TokensOf(Tail(batch))

\* C31: buildEmbeddingBatches partitions its input in order: the batches put
\* together give the input, no batch is empty, a batch of more than one
\* chunk is estimated at 8000 tokens at most, and a chunk estimated above
\* 8000 is alone in its batch.
C31_BatchesPartitionInput ==
    unit.pc = "batched" =>
        /\ Concat(unit.batches) = unit.chunks
        /\ \A b \in 1..Len(unit.batches) :
              /\ unit.batches[b] # <<>>
              /\ Len(unit.batches[b]) > 1 =>
                    TokensOf(unit.batches[b]) <= EMBEDDING_BATCH_MAX_TOKENS
              /\ \A k \in 1..Len(unit.batches[b]) :
                    estimateEmbeddingTokens(unit.batches[b][k].text)
                        > EMBEDDING_BATCH_MAX_TOKENS
                      => Len(unit.batches[b]) = 1

\* C31's case: three chunks, the one in the middle above the budget, come
\* out as three batches; and two halves of the budget share a batch.
C31_Witness ==
    /\ unit.pc = "batched"
    /\ Len(unit.chunks) = 3
    /\ \/ /\ Len(unit.batches) = 3
          /\ estimateEmbeddingTokens(unit.chunks[2].text) > EMBEDDING_BATCH_MAX_TOKENS
          /\ estimateEmbeddingTokens(unit.chunks[1].text) = 1
       \/ /\ Len(unit.batches) = 2
          /\ TokensOf(unit.batches[1]) = EMBEDDING_BATCH_MAX_TOKENS
          /\ Len(unit.batches[1]) = 2


\* C32: with a provider that answers one vector per text in the order of
\* the texts, after a file is indexed every stored chunk holds the vector of
\* its own text, whether it came from the cache or from the provider and
\* however the misses were batched; and every cache entry written maps a
\* hash to the vector of the text with that hash.
C32_EmbeddingBelongsToChunk ==
    unit.pc = "indexed" =>
        /\ \A k \in 1..Len(unit.chunks) :
              \E row \in db.chunks :
                  /\ row.id = chunkId(IndexedEntry.path, unit.chunks[k],
                                      cfg.provider.model)
                  /\ row.text = unit.chunks[k].text
                  /\ parseEmbedding(row.embedding)
                        = Emb(cfg.provider, unit.chunks[k].text)
        /\ \A row \in db.chunks :
              parseEmbedding(row.embedding) = Emb(cfg.provider, row.text)
        /\ \A key \in DOMAIN db.cache :
              (key \notin DOMAIN unit.cache0 \/ db.cache[key] # unit.cache0[key])
                  => \E k \in 1..Len(unit.chunks) :
                        /\ key = CacheKey(cfg, unit.chunks[k].hash)
                        /\ parseEmbedding(db.cache[key])
                              = Emb(cfg.provider, unit.chunks[k].text)

\* C32's case: a hit between two misses that went out in two batches.
C32_Witness ==
    /\ unit.pc = "indexed"
    /\ Len(unit.chunks) = 3
    /\ unit.sent = {1, 3}
    /\ Len(unit.batches) = 2
    /\ unit.chunks[1].text # unit.chunks[3].text
    /\ Emb(cfg.provider, unit.chunks[1].text) # Emb(cfg.provider, unit.chunks[3].text)


\* C33: when the provider fails on a batch while a file is indexed, the
\* file, chunk and full-text records of that file are as they were before
\* the file was taken up, and no vector computed for the file in this call
\* is in the cache.
C33_ProviderFailureLeavesFile ==
    (hist.valid /\ last = "err" /\ "provider" \in hist.errors) =>
        /\ RowsOf(db, IndexedEntry.path) = RowsOf(hist.db0, IndexedEntry.path)
        /\ db.cache = hist.db0.cache

\* C33's case: the first batch was answered, the second was rejected, and
\* the store held rows of the file.
C33_Witness ==
    /\ hist.valid /\ last = "err" /\ "provider" \in hist.errors
    /\ hist.calls # {}
    /\ hist.db0.chunks # {}


(***************************************************************************)
(* Properties of what the operations leave alone                           *)
(***************************************************************************)
\* C34: no operation removes an entry of the embedding cache: every key
\* stays through sync, the full reset (forced or by the metadata), the
\* stale cleanup and a reopening; so a forced sync that follows a sync
\* which met no fault, with nothing changed in between, indexes every file
\* without a call of the provider.
C34_CacheKeysStay ==
    /\ [][\A key \in DOMAIN db.cache : key \in DOMAIN db'.cache]_vars
    /\ []((hist.valid /\ hist.force /\ hist.since0 = "clean" /\ nFaults = 0)
            => hist.calls = {})

C34_Witness ==
    /\ hist.valid /\ hist.force /\ hist.since0 = "clean" /\ nFaults = 0
    /\ syncPc = "idle" /\ last = "ok"
    /\ hist.indexed = {p \in Paths : disk[p] # NoFile}
    /\ hist.indexed # {}
    /\ DOMAIN db.cache # {}


\* The number of full-text rows with an id.
FtsRowsWithId(d, id) ==
    BagCardinality(BagWithout(d.fts, {r \in DOMAIN d.fts : r.id # id}))

FtsAgreesWithChunks(d) ==
    /\ \A c \in d.chunks : FtsRowsWithId(d, c.id) = 1
    /\ \A r \in DOMAIN d.fts : \E c \in d.chunks : c.id = r.id

\* C35: with the full-text index available, after every successful sync of
\* a run in which no statement has thrown, each chunk record has exactly
\* one full-text row with its id and each full-text row has a chunk record
\* with its id, also when a file yields several chunks with the same line
\* range and the same text.
C35_FtsAgreesWithChunks ==
    (hist.valid /\ syncPc = "idle" /\ last = "ok" /\ ftsAvailable
     /\ nFaults = 0)
        => FtsAgreesWithChunks(db)


\* C36: search and status are read-only: no step of a search (its start,
\* the answer or the rejection of embedQuery, its return) and no call of
\* status changes a file record, a chunk record, a full-text row, a cache
\* entry or the metadata, whatever the query, the options and the outcome.
C36_SearchAndStatusReadOnly ==
    [][(srch' # srch \/ unit' # unit) => db' = db]_vars

C36_Witness ==
    /\ srch.pc = "done" /\ srch.results # <<>> /\ srch.embedCalls = 1
    /\ unit.pc = "status" /\ unit.chunks > 0
    /\ db = SyncedDb(BaseConfig, InitialDisk, ftsAvailable)


(***************************************************************************)
(* Properties of interleaved calls                                         *)
(***************************************************************************)
\* The entries a finished search returns, with their ids.
ReturnedEntries(s) ==
    LET kept == Take(FilterByMinScore(s.ranked, s.minScore), s.maxResults)
    IN {kept[k] : k \in 1..Len(kept)}

HasChunkRecord(d, e) ==
    \E c \in d.chunks : /\ c.id = e.id /\ c.path = e.path
                        /\ c.startLine = e.startLine /\ c.endLine = e.endLine

HasFtsRow(d, e) ==
    \E r \in DOMAIN d.fts : /\ r.id = e.id /\ r.path = e.path
                            /\ r.startLine = e.startLine /\ r.endLine = e.endLine

SearchReturns == srch.pc = "embedding" /\ srch'.pc = "done"

\* C37 as stated: when a search and a sync interleave at their awaits (no
\* statement throwing), every result refers to a chunk record (id, path,
\* line range) that is in the index at the moment search returns.
C37_ResultsPresentAtReturn ==
    [][(SearchReturns /\ nFaults = 0) =>
          \A e \in ReturnedEntries(srch') : HasChunkRecord(db', e)]_vars

\* C37 amended: every result the vector scorer found refers to a chunk
\* record that is in the index when search returns; every other result
\* refers to a full-text row that was in the index when search was called.
C37_ResultsPresentAtCallOrReturn ==
    [][SearchReturns =>
          \A e \in ReturnedEntries(srch') :
              IF \E k \in 1..Len(srch'.vectorResults) : srch'.vectorResults[k].id = e.id
              THEN HasChunkRecord(db', e)
              ELSE HasFtsRow(srch.db0, e)]_vars

\* A search that was called while indexFile waited for the provider and
\* returns, after the file's rows were rewritten, a result of each kind.
C37_Witness ==
    /\ srch.pc = "done" /\ hist.valid /\ srch.db0.chunks # db.chunks
    /\ \E e \in ReturnedEntries(srch) : HasChunkRecord(db, e)
    /\ \E e \in ReturnedEntries(srch) : ~HasChunkRecord(db, e) /\ HasFtsRow(srch.db0, e)


\* The index without its embedding cache.
IndexOf(d) == [files |-> d.files, chunks |-> d.chunks, fts |-> d.fts, meta |-> d.meta]

CallDone(pc, l, h) == pc = "idle" /\ l = "ok" /\ h.valid
CallNotMade(pc, l, h) == pc = "idle" /\ l = "none" /\ ~h.valid

BothSyncsDone ==
    /\ unit.pc = "other"
    /\ CallDone(syncPc, last, hist)
    /\ CallDone(unit.syncPc, unit.last, unit.hist)

OneSyncAlone ==
    /\ unit.pc = "other"
    /\ \/ CallDone(syncPc, last, hist) /\ CallNotMade(unit.syncPc, unit.last, unit.hist)
       \/ CallNotMade(syncPc, last, hist) /\ CallDone(unit.syncPc, unit.last, unit.hist)

\* C38: with the files and the configuration unchanged and no statement
\* throwing, once two sync calls that overlapped have both completed, the
\* file records, chunk records, full-text rows and metadata are those a
\* single sync run alone leaves.
C38_OverlappingSyncsSameIndex ==
    /\ (OneSyncAlone /\ nFaults = 0) =>
          IndexOf(db) = IndexOf(SyncedDb(cfg, disk, ftsAvailable))
    /\ (BothSyncsDone /\ nFaults = 0) =>
          IndexOf(db) = IndexOf(SyncedDb(cfg, disk, ftsAvailable))

C38_Witness ==
    /\ BothSyncsDone /\ unit.overlapped /\ nFaults = 0
    /\ hist.indexed # {} /\ unit.hist.indexed # {}
    /\ hist.force # unit.hist.force
    /\ db.chunks # {} /\ ftsAvailable


(***************************************************************************)
(* Properties of the default weights and threshold                         *)
(***************************************************************************)
DefaultsInForce ==
    /\ ftsAvailable
    /\ cfg.vectorWeight = VectorWeight /\ cfg.textWeight = TextWeight
    /\ srch.optMinScore = <<>>

\* The merged entries only the keyword scorer found.
KeywordOnly(s) ==
    {s.ranked[k] : k \in {i \in 1..Len(s.ranked) :
        \A j \in 1..Len(s.vectorResults) : s.vectorResults[j].id # s.ranked[i].id}}

\* C39: under the default weights 0.7 and 0.3 and the default minScore
\* 0.35, with the full-text index available, an entry only the keyword
\* scorer found has a combined score of at most 0.3 and is not among the
\* results; a search whose query vector is all zeros returns nothing.
C39_KeywordOnlyBelowThreshold ==
    (srch.pc = "done" /\ srch.embedCalls = 1 /\ DefaultsInForce) =>
        /\ \A e \in KeywordOnly(srch) :
              /\ e.score <= 3000
              /\ e \notin ReturnedEntries(srch)
        /\ ~srch.hasVector => srch.results = <<>>

C39_Witness ==
    /\ srch.pc = "done" /\ srch.embedCalls = 1 /\ DefaultsInForce
    /\ srch.hasVector /\ FilterByMinScore(srch.ranked, srch.minScore) # <<>>
    /\ \E e \in KeywordOnly(srch) : e.score = 3000


\* The same with a query vector of zeros: keyword results, none returned.
C39_WitnessZero ==
    /\ srch.pc = "done" /\ srch.embedCalls = 1 /\ DefaultsInForce
    /\ ~srch.hasVector /\ srch.keywordResults # <<>> /\ srch.results = <<>>


=============================================================================
